---- MODULE Spec2Model ----
(***************************************************************************)
(* Classification + policy evaluation core of cybersentinel-dlp.           *)
(*                                                                         *)
(*   PolicyEvaluator  src/policy-engine/evaluator/policy_evaluator.py      *)
(*   PolicyEngine     src/server/app/services/policy_engine.py             *)
(*   DLPClassifier    src/ml/inference/classifier.py                       *)
(*                                                                         *)
(* Python values are tagged records: [t |-> "none"], [t |-> "str", v |->   *)
(* <<chars>>], [t |-> "int", v |-> n], [t |-> "list", v |-> <<values>>],   *)
(* [t |-> "dict", v |-> [key |-> value]].  A Python dict that the code     *)
(* reads with fixed keys (a policy, a condition, a rule) is a TLA+ record  *)
(* whose DOMAIN is the set of keys present.  A dotted field path is kept   *)
(* as the list of keys path.split('.') yields.                             *)
(***************************************************************************)
EXTENDS Integers, Sequences, FiniteSets, TLC

VARIABLES
    policies,        \* PolicyEvaluator.policies
    state_tracker,   \* PolicyEvaluator.state_tracker: policy id -> window list
    now,             \* wall clock read by datetime.utcnow(), in seconds
    hist,            \* ghost: every evaluate_event call so far, with its result
    rc_tracker,      \* state_tracker seen by two threads: policy id -> list object
    rc_heap,         \* the list objects: reference -> content
    rc_pc,           \* where each thread is in _evaluate_stateful
    rc_loc,          \* each thread's locals
    rc_init,         \* ghost: the tracker before the two calls
    eng_policies,    \* PolicyEngine.policies: a reference to a list object
    eng_heap,        \* the list objects: reference -> content
    eng_patterns,    \* PolicyEngine.compiled_patterns: the keys
    eng_disk,        \* the policy files in policies_directory
    eng_ld,          \* the thread that loads and reloads
    eng_ev,          \* the thread that calls evaluate_event
    eng_ret,         \* ghost: what the last evaluate_event call returned
    cond_event,      \* the event given to _evaluate_conditions
    cond_tree,       \* the conditions given to _evaluate_conditions
    cond_result,     \* what _evaluate_conditions returned, once it has
    cl_fingerprints, \* DLPClassifier.fingerprints
    cl_content,      \* the content last given to classify
    cl_class,        \* what classify returned for it
    cl_eval          \* what the policy engines returned for the classified event

evaluatorVars == <<policies, state_tracker, now, hist>>

raceVars == <<rc_tracker, rc_heap, rc_pc, rc_loc, rc_init>>

engineVars == <<eng_policies, eng_heap, eng_patterns, eng_disk, eng_ld, eng_ev, eng_ret>>

condVars == <<cond_event, cond_tree, cond_result>>

classVars == <<cl_fingerprints, cl_content, cl_class, cl_eval>>

nonEvaluatorVars == <<raceVars, engineVars, condVars, classVars>>

nonRaceVars == <<evaluatorVars, engineVars, condVars, classVars>>

nonEngineVars == <<evaluatorVars, raceVars, condVars, classVars>>

nonCondVars == <<evaluatorVars, raceVars, engineVars, classVars>>

nonClassVars == <<evaluatorVars, raceVars, engineVars, condVars>>

-----------------------------------------------------------------------------
(* Python values                                                            *)

PyNone == [t |-> "none"]
PyStr(s) == [t |-> "str", v |-> s]
PyInt(n) == [t |-> "int", v |-> n]
PyList(s) == [t |-> "list", v |-> s]
PyDict(d) == [t |-> "dict", v |-> d]

\* dict.get(key, default) on a TLA+ record
Get(d, k, default) == IF k \in DOMAIN d THEN d[k] ELSE default

\* Python == on values
PyEq(a, b) == a.t = b.t /\ (a.t = "none" \/ a.v = b.v)

\* x in list
InList(x, l) == \E i \in 1..Len(l) : PyEq(l[i], x)

\* sub in text, both strings (sequences of characters)
IsSubstring(sub, text) ==
    \E i \in 0..(Len(text) - Len(sub)) : SubSeq(text, i + 1, i + Len(sub)) = sub

Min(a, b) == IF a <= b THEN a ELSE b

\* Code-point order of the characters the model's strings use
Alphabet ==
    <<"0", "1", "2", "3", "4", "5", "6", "7", "8", "9",
      "A", "B", "C", "D", "E", "F", "G", "H", "I", "J", "K", "L", "M",
      "N", "O", "P", "Q", "R", "S", "T", "U", "V", "W", "X", "Y", "Z", "_",
      "a", "b", "c", "d", "e", "f", "g", "h", "i", "j", "k", "l", "m",
      "n", "o", "p", "q", "r", "s", "t", "u", "v", "w", "x", "y", "z">>

Ord(c) == CHOOSE i \in 1..Len(Alphabet) : Alphabet[i] = c

\* Python's ordering of two strings: "lt", "eq" or "gt"
RECURSIVE StrCmp(_, _)
StrCmp(a, b) ==
    IF a = <<>> /\ b = <<>> THEN "eq"
    ELSE IF a = <<>> THEN "lt"
    ELSE IF b = <<>> THEN "gt"
    ELSE IF Ord(Head(a)) < Ord(Head(b)) THEN "lt"
    ELSE IF Ord(Head(a)) > Ord(Head(b)) THEN "gt"
    ELSE StrCmp(Tail(a), Tail(b))

\* Python's ordering of two values; "err" is the TypeError of an unorderable
\* pair (None, a dict, a number against a string, ...)
RECURSIVE PyCmp(_, _)
PyCmp(a, b) ==
    IF a.t = "int" /\ b.t = "int"
    THEN (IF a.v < b.v THEN "lt" ELSE IF a.v > b.v THEN "gt" ELSE "eq")
    ELSE IF a.t = "str" /\ b.t = "str" THEN StrCmp(a.v, b.v)
    ELSE IF a.t = "list" /\ b.t = "list"
    THEN (IF a.v = <<>> /\ b.v = <<>> THEN "eq"
          ELSE IF a.v = <<>> THEN "lt"
          ELSE IF b.v = <<>> THEN "gt"
          ELSE IF PyEq(Head(a.v), Head(b.v))
               THEN PyCmp(PyList(Tail(a.v)), PyList(Tail(b.v)))
               ELSE PyCmp(Head(a.v), Head(b.v)))
    ELSE "err"

\* str(value) for the values a regex leaf is applied to
RECURSIVE DecimalDigits(_)
DecimalDigits(n) ==
    IF n < 10 THEN <<Alphabet[n + 1]>>
    ELSE Append(DecimalDigits(n \div 10), Alphabet[(n % 10) + 1])

StrOf(x) ==
    CASE x.t = "str" -> x.v
      [] x.t = "none" -> <<"N", "o", "n", "e">>
      [] x.t = "int" -> DecimalDigits(x.v)

\* re.compile accepts the pattern; the model's patterns are literal text, or
\* text holding an unbalanced "(" or "[", which re.compile rejects
ValidPattern(p) == \A i \in 1..Len(p) : p[i] \notin {"(", "["}

-----------------------------------------------------------------------------
(* PolicyEvaluator._get_nested_value                                        *)

RECURSIVE WalkKeys(_, _)
WalkKeys(value, keys) ==
    IF keys = <<>> THEN value
    ELSE IF value.t # "dict" THEN PyNone
    ELSE LET nxt == Get(value.v, Head(keys), PyNone)
         IN  IF nxt.t = "none" THEN PyNone ELSE WalkKeys(nxt, Tail(keys))

GetNestedValue(data, path) == WalkKeys(data, path)

-----------------------------------------------------------------------------
(* PolicyEvaluator._evaluate_condition                                      *)

KnownOperators ==
    {"==", "!=", ">", ">=", "<", "<=", "contains", "not contains",
     "in", "not in", "regex", "exists"}

\* 'contains': v in ev if isinstance(ev, (list, str)) else False; a literal
\* that is not a string makes v in ev raise TypeError on a string
Contains(ev, v) ==
    IF ev.t = "list" THEN InList(v, ev.v)
    ELSE IF ev.t = "str" THEN v.t = "str" /\ IsSubstring(v.v, ev.v)
    ELSE FALSE

\* mutant: 'not contains' is false for what is neither a list nor a string
NotContainsStrict(ev, v) ==
    IF ev.t = "list" THEN ~InList(v, ev.v)
    ELSE IF ev.t = "str" THEN v.t = "str" /\ ~IsSubstring(v.v, ev.v)
    ELSE FALSE

\* 'not contains': v not in ev if isinstance(ev, (list, str)) else True
NotContains(ev, v) ==
    IF ev.t = "list" THEN ~InList(v, ev.v)
    ELSE IF ev.t = "str" THEN v.t = "str" /\ ~IsSubstring(v.v, ev.v)
    ELSE TRUE

\* The lambda of the operators table; the try/except around the call turns
\* every TypeError into False.
ApplyOperator(op, ev, v) ==
    CASE op = "==" -> PyEq(ev, v)
      [] op = "!=" -> ~PyEq(ev, v)
      [] op = ">" -> PyCmp(ev, v) = "gt"
      [] op = ">=" -> PyCmp(ev, v) \in {"gt", "eq"}
      [] op = "<" -> PyCmp(ev, v) = "lt"
      [] op = "<=" -> PyCmp(ev, v) \in {"lt", "eq"}
      [] op = "contains" -> Contains(ev, v)
      [] op = "not contains" -> NotContains(ev, v)
      [] op = "in" -> IF v.t = "list" THEN InList(ev, v.v) ELSE FALSE
      [] op = "not in" -> IF v.t = "list" THEN ~InList(ev, v.v) ELSE TRUE
      [] op = "regex" ->
            v.t = "str" /\ ValidPattern(v.v) /\ IsSubstring(v.v, StrOf(ev))
      [] op = "exists" -> ev.t # "none"
      [] OTHER -> FALSE

EvaluateCondition(event, condition) ==
    LET field == Get(condition, "field", <<"">>)
        operator == Get(condition, "operator", "==")
        value == Get(condition, "value", PyNone)
        event_value == GetNestedValue(event, field)
    IN  IF operator \notin KnownOperators THEN FALSE
        ELSE ApplyOperator(operator, event_value, value)

-----------------------------------------------------------------------------
(* PolicyEvaluator._evaluate_conditions                                     *)

\* mutant: an 'all' that wants at least one child
AllOfNonEmpty(event, children) ==
    children # <<>> /\ \A i \in 1..Len(children) : EvaluateCondition(event, children[i])

\* lines 95-99: all(self._evaluate_condition(event, cond) for cond in ...)
AllOf(event, children) ==
    \A i \in 1..Len(children) : EvaluateCondition(event, children[i])

\* lines 102-106: any(self._evaluate_condition(event, cond) for cond in ...)
AnyOf(event, children) ==
    \E i \in 1..Len(children) : EvaluateCondition(event, children[i])

RECURSIVE EvaluateConditions(_, _)
EvaluateConditions(event, conditions) ==
    IF "all" \in DOMAIN conditions
    THEN AllOf(event, conditions.all)
    ELSE IF "any" \in DOMAIN conditions
    THEN AnyOf(event, conditions.any)
    ELSE IF "not" \in DOMAIN conditions
    THEN ~EvaluateConditions(event, conditions["not"])
    ELSE EvaluateCondition(event, conditions)

-----------------------------------------------------------------------------
(* PolicyEvaluator._parse_duration                                          *)

Digits == {"0", "1", "2", "3", "4", "5", "6", "7", "8", "9"}

\* units table of _parse_duration
Units(u) ==
    CASE u = "s" -> 1
      [] u = "m" -> 60
      [] u = "h" -> 3600
      [] u = "d" -> 86400

DefaultWindowSeconds == 300

\* int() of a string of decimal digits
RECURSIVE IntOf(_)
IntOf(ds) ==
    IF ds = <<>> THEN 0
    ELSE 10 * IntOf(SubSeq(ds, 1, Len(ds) - 1)) + (Ord(ds[Len(ds)]) - 1)

\* length of the longest prefix of d made of digits
RECURSIVE DigitRun(_)
DigitRun(d) ==
    IF d = <<>> \/ Head(d) \notin Digits THEN 0 ELSE 1 + DigitRun(Tail(d))

\* re.match(r'(\d+)([smhd])', duration): a digit run at the start followed by
\* a unit letter; anything after the unit is ignored
ParseDuration(duration) ==
    LET k == DigitRun(duration)
    IN  IF k >= 1 /\ Len(duration) > k /\ duration[k + 1] \in {"s", "m", "h", "d"}
        THEN IntOf(SubSeq(duration, 1, k)) * Units(duration[k + 1])
        ELSE DefaultWindowSeconds

-----------------------------------------------------------------------------
(* PolicyEvaluator._evaluate_stateful                                       *)

EmptyDict == <<>>

\* dict[key] = value on a dict kept as a function
Store(d, k, val) == [x \in (DOMAIN d) \cup {k} |-> IF x = k THEN val ELSE d[x]]

\* mutant: nothing is pruned
KeepNewerNoPrune(items, cutoff_time) == items

\* the list comprehension that keeps the entries newer than the cutoff
RECURSIVE KeepNewer(_, _)
KeepNewer(items, cutoff_time) ==
    IF items = <<>> THEN <<>>
    ELSE IF Head(items).timestamp > cutoff_time
         THEN <<Head(items)>> \o KeepNewer(Tail(items), cutoff_time)
         ELSE KeepNewer(Tail(items), cutoff_time)

\* set(...) raises TypeError on an unhashable member
Hashable(x) == x.t \notin {"list", "dict"}

\* mutant: the entries in which the field resolves to None are left out
DistinctValuesPresent(items, distinct_field) ==
    {GetNestedValue(items[i].event, distinct_field) : i \in 1..Len(items)} \ {PyNone}

\* len(set(_get_nested_value(item['event'], distinct_field) for item in ...))
DistinctValues(items, distinct_field) ==
    {GetNestedValue(items[i].event, distinct_field) : i \in 1..Len(items)}

\* mutant: the distinct field is ignored and every entry is counted
CountInWindowAll(items, distinct_field) == Len(items)

CountInWindow(items, distinct_field) ==
    IF distinct_field # <<>>
    THEN Cardinality(DistinctValues(items, distinct_field))
    ELSE Len(items)

\* lines 203-218: count the retained entries and compare with the threshold.
\* The result is the tracker afterwards, the boolean returned, and whether the
\* call raised instead of returning.
StatefulOutcome(tracker, policy_id, events_in_window, distinct_field, count_threshold) ==
    IF distinct_field # <<>>
       /\ \E v \in DistinctValues(events_in_window, distinct_field) : ~Hashable(v)
    THEN [tracker |-> Store(tracker, policy_id, events_in_window),
          result |-> FALSE, raised |-> TRUE]
    ELSE [tracker |-> Store(tracker, policy_id, events_in_window),
          result |-> CountInWindow(events_in_window, distinct_field) >= count_threshold,
          raised |-> FALSE]

\* The whole of _evaluate_stateful as one call.  Both datetime.utcnow() reads
\* of one call return t.
EvaluateStateful(tracker, t, event, policy) ==
    LET stateful == policy.stateful
        window == Get(stateful, "window", PyStr(<<"5", "m">>))
        threshold == Get(stateful, "threshold", EmptyDict)
        count_threshold == Get(threshold, "count", 1)
        distinct_field == Get(threshold, "distinct_field", <<>>)
        policy_id == Get(policy, "id", "None")
    IN  IF window.t # "str"
        THEN [tracker |-> tracker, result |-> FALSE, raised |-> TRUE]
        ELSE
        LET window_seconds == ParseDuration(window.v)
            existing == IF policy_id \in DOMAIN tracker THEN tracker[policy_id] ELSE <<>>
            appended == Append(existing, [timestamp |-> t, event |-> event])
            cutoff_time == t - window_seconds
        IN  StatefulOutcome(tracker, policy_id, KeepNewer(appended, cutoff_time),
                            distinct_field, count_threshold)

-----------------------------------------------------------------------------
(* PolicyEvaluator.evaluate_event                                           *)

DefaultPriority == 100

MatchInfo(policy) ==
    [policy_id |-> Get(policy, "id", "None"),
     policy_name |-> Get(policy, "name", "None"),
     priority |-> Get(policy, "priority", DefaultPriority),
     actions |-> Get(policy, "actions", <<>>),
     compliance_tags |-> Get(policy, "compliance_tags", <<>>)]

\* an entry of self.policies that yaml.safe_load returned for a document that
\* holds no mapping; policy.get raises AttributeError on it
NotAMapping(policy) == policy = PyNone

RECURSIVE EvaluateFrom(_, _, _, _, _, _)

\* lines 59-72 for a policy with a stateful clause, r being what
\* _evaluate_stateful did
AfterStateful(pols, i, r, t, event, matches) ==
    IF r.raised
    THEN [tracker |-> r.tracker, matches |-> matches, raised |-> TRUE]
    ELSE IF ~r.result
    THEN EvaluateFrom(pols, i + 1, r.tracker, t, event, matches)
    ELSE EvaluateFrom(pols, i + 1, r.tracker, t, event,
                      Append(matches, MatchInfo(pols[i])))

\* mutant: the stateful check runs whatever the static conditions say
EvaluateFromUngated(pols, i, tracker, t, event, matches) ==
    IF i > Len(pols)
    THEN [tracker |-> tracker, matches |-> matches, raised |-> FALSE]
    ELSE IF NotAMapping(pols[i])
    THEN [tracker |-> tracker, matches |-> matches, raised |-> TRUE]
    ELSE IF ~Get(pols[i], "enabled", TRUE)
    THEN EvaluateFrom(pols, i + 1, tracker, t, event, matches)
    ELSE IF "stateful" \in DOMAIN pols[i]
    THEN AfterStateful(pols, i, EvaluateStateful(tracker, t, event, pols[i]),
                       t, event, matches)
    ELSE IF ~EvaluateConditions(event, Get(pols[i], "conditions", EmptyDict))
    THEN EvaluateFrom(pols, i + 1, tracker, t, event, matches)
    ELSE EvaluateFrom(pols, i + 1, tracker, t, event,
                      Append(matches, MatchInfo(pols[i])))

\* mutant: the enabled flag is not looked at
EvaluateFromAll(pols, i, tracker, t, event, matches) ==
    IF i > Len(pols)
    THEN [tracker |-> tracker, matches |-> matches, raised |-> FALSE]
    ELSE IF NotAMapping(pols[i])
    THEN [tracker |-> tracker, matches |-> matches, raised |-> TRUE]
    ELSE IF ~EvaluateConditions(event, Get(pols[i], "conditions", EmptyDict))
    THEN EvaluateFrom(pols, i + 1, tracker, t, event, matches)
    ELSE IF "stateful" \in DOMAIN pols[i]
    THEN AfterStateful(pols, i, EvaluateStateful(tracker, t, event, pols[i]),
                       t, event, matches)
    ELSE EvaluateFrom(pols, i + 1, tracker, t, event,
                      Append(matches, MatchInfo(pols[i])))

\* the for loop of evaluate_event from the i-th policy on
EvaluateFrom(pols, i, tracker, t, event, matches) ==
    IF i > Len(pols)
    THEN [tracker |-> tracker, matches |-> matches, raised |-> FALSE]
    ELSE IF NotAMapping(pols[i])
    THEN [tracker |-> tracker, matches |-> matches, raised |-> TRUE]
    ELSE IF ~Get(pols[i], "enabled", TRUE)
    THEN EvaluateFrom(pols, i + 1, tracker, t, event, matches)
    ELSE IF ~EvaluateConditions(event, Get(pols[i], "conditions", EmptyDict))
    THEN EvaluateFrom(pols, i + 1, tracker, t, event, matches)
    ELSE IF "stateful" \in DOMAIN pols[i]
    THEN AfterStateful(pols, i, EvaluateStateful(tracker, t, event, pols[i]),
                       t, event, matches)
    ELSE EvaluateFrom(pols, i + 1, tracker, t, event,
                      Append(matches, MatchInfo(pols[i])))

EvaluateEventResult(pols, tracker, t, event) ==
    EvaluateFrom(pols, 1, tracker, t, event, <<>>)

-----------------------------------------------------------------------------
(* PolicyEvaluator.load_policy                                              *)

\* list.sort(key=..., reverse=True): descending by key, and stable (elements
\* with equal keys keep their order)
SortByPriorityDesc(s) ==
    LET key(i) == Get(s[i], "priority", DefaultPriority)
        rank(i) == 1 + Cardinality({j \in 1..Len(s) :
                        key(j) > key(i) \/ (key(j) = key(i) /\ j < i)})
    IN  [r \in 1..Len(s) |-> s[CHOOSE i \in 1..Len(s) : rank(i) = r]]

LoadPolicyResult(pols, policy) == SortByPriorityDesc(Append(pols, policy))

\* load_policy(policy_yaml) on any input: the list afterwards and whether the
\* call raised.  yaml.safe_load raises on text it cannot parse and returns
\* None for an empty document; the result is appended (line 33) before
\* list.sort calls p.get on every entry (line 35), and a sort whose key
\* function raises leaves the list in the order it had.
LoadYamlResult(pols, file) ==
    IF file.kind = "unparsable" THEN [policies |-> pols, raised |-> TRUE]
    ELSE IF file.kind = "empty" THEN [policies |-> Append(pols, PyNone), raised |-> TRUE]
    ELSE IF \E i \in 1..Len(pols) : NotAMapping(pols[i])
    THEN [policies |-> Append(pols, file.data), raised |-> TRUE]
    ELSE [policies |-> LoadPolicyResult(pols, file.data), raised |-> FALSE]

-----------------------------------------------------------------------------
(* PolicyEngine: conditions, rules and actions                              *)

PyBool(b) == [t |-> "bool", v |-> b]

\* PolicyEngine._get_nested_field
RECURSIVE GetNestedField(_, _)
GetNestedField(value, parts) ==
    IF parts = <<>> THEN value
    ELSE IF value.t # "dict" THEN PyNone
    ELSE GetNestedField(Get(value.v, Head(parts), PyNone), Tail(parts))

\* card_number.replace(" ", "").replace("-", "")
RECURSIVE StripSeparators(_)
StripSeparators(cs) ==
    IF cs = <<>> THEN <<>>
    ELSE IF Head(cs) \in {" ", "-"} THEN StripSeparators(Tail(cs))
    ELSE <<Head(cs)>> \o StripSeparators(Tail(cs))

\* str.isdigit(): not empty and digits only
IsDigitString(cs) == cs # <<>> /\ \A i \in 1..Len(cs) : cs[i] \in Digits

DigitOf(c) == Ord(c) - 1

\* sum(digits_of(d * 2))
DoubledDigitSum(d) == ((2 * d) \div 10) + ((2 * d) % 10)

\* odd_digits = digits[-1::-2] are summed as they are, even_digits =
\* digits[-2::-2] doubled and digit-summed; pos counts from the right, from 1
RECURSIVE LuhnSum(_, _)
LuhnSum(cs, pos) ==
    IF cs = <<>> THEN 0
    ELSE (IF pos % 2 = 1 THEN DigitOf(cs[Len(cs)])
          ELSE DoubledDigitSum(DigitOf(cs[Len(cs)])))
         + LuhnSum(SubSeq(cs, 1, Len(cs) - 1), pos + 1)

\* PolicyEngine._luhn_check
LuhnCheckStripped(cs) == IsDigitString(cs) /\ LuhnSum(cs, 1) % 10 = 0

LuhnCheck(card_number) == LuhnCheckStripped(StripSeparators(card_number))

\* float(x) succeeds: a number, or a string holding a decimal number
Floatable(x) == x.t = "int" \/ (x.t = "str" /\ IsDigitString(x.v))

FloatOf(x) == IF x.t = "int" THEN x.v ELSE IntOf(x.v)

\* PolicyEngine._evaluate_condition: "true", "false", or "raise" when the
\* call raises (re.compile of a pattern that is not a string)
EngEvaluateCondition(event, condition) ==
    IF ~("field" \in DOMAIN condition /\ condition.field # <<>>
         /\ "operator" \in DOMAIN condition /\ condition.operator # "")
    THEN "false"
    ELSE LET operator == condition.operator
             value == Get(condition, "value", PyNone)
             event_value == GetNestedField(event, condition.field)
             B(b) == IF b THEN "true" ELSE "false"
         IN  CASE operator = "equals" -> B(PyEq(event_value, value))
               [] operator = "not_equals" -> B(~PyEq(event_value, value))
               [] operator = "contains" ->
                     IF event_value.t = "str" /\ value.t = "str"
                     THEN B(IsSubstring(value.v, event_value.v))
                     ELSE IF event_value.t = "list" THEN B(InList(value, event_value.v))
                     ELSE "false"
               [] operator = "regex" ->
                     IF event_value.t # "str" THEN "false"
                     ELSE IF value.t # "str" THEN "raise"
                     ELSE B(ValidPattern(value.v) /\ IsSubstring(value.v, event_value.v))
               [] operator = "greater_than" ->
                     B(Floatable(event_value) /\ Floatable(value)
                       /\ FloatOf(event_value) > FloatOf(value))
               [] operator = "less_than" ->
                     B(Floatable(event_value) /\ Floatable(value)
                       /\ FloatOf(event_value) < FloatOf(value))
               [] operator = "greater_equal" ->
                     B(Floatable(event_value) /\ Floatable(value)
                       /\ FloatOf(event_value) >= FloatOf(value))
               [] operator = "less_equal" ->
                     B(Floatable(event_value) /\ Floatable(value)
                       /\ FloatOf(event_value) <= FloatOf(value))
               [] operator = "in" ->
                     IF value.t # "list" THEN "false" ELSE B(InList(event_value, value.v))
               [] operator = "exists" -> B(event_value.t # "none")
               [] operator = "not_exists" -> B(event_value.t = "none")
               [] operator = "luhn_check" ->
                     IF event_value.t # "str" THEN "false" ELSE B(LuhnCheck(event_value.v))
               [] OTHER -> "false"

\* the for loop of _evaluate_rule from the i-th condition on
RECURSIVE AllConditionsFrom(_, _, _)
AllConditionsFrom(event, conditions, i) ==
    IF i > Len(conditions) THEN "true"
    ELSE IF EngEvaluateCondition(event, conditions[i]) = "true"
    THEN AllConditionsFrom(event, conditions, i + 1)
    ELSE EngEvaluateCondition(event, conditions[i])

\* PolicyEngine._evaluate_rule
EngEvaluateRule(event, rule) ==
    IF Get(rule, "conditions", <<>>) = <<>> THEN "false"
    ELSE AllConditionsFrom(event, rule.conditions, 1)

PolicyViolation == <<"P", "o", "l", "i", "c", "y", " ", "v", "i", "o", "l", "a", "t", "i",
                     "o", "n", ":", " ">>
BlockedBy == <<"B", "l", "o", "c", "k", "e", "d", " ", "b", "y", " ", "p", "o", "l",
               "i", "c", "y", ":", " ">>
QuarantinedBy == <<"Q", "u", "a", "r", "a", "n", "t", "i", "n", "e", "d", " ", "b", "y",
                   " ", "p", "o", "l", "i", "c", "y", ":", " ">>
QuarantineDir == <<"/", "v", "a", "r", "/", "q", "u", "a", "r", "a", "n", "t", "i", "n",
                   "e", "/", "c", "y", "b", "e", "r", "s", "e", "n", "t", "i", "n", "e",
                   "l">>

PolicyName(policy) == Get(policy, "name", <<"N", "o", "n", "e">>)

\* event[key] = val
SetKey(event, key, val) == PyDict(Store(event.v, key, val))

\* _action_alert
ActionAlert(event, action, policy) ==
    SetKey(event, "alert",
           PyDict([description |-> Get(action, "message", PyStr(PolicyViolation \o PolicyName(policy))),
                   severity |-> IF "severity" \in DOMAIN action THEN action.severity
                                ELSE Get(policy, "severity", "medium"),
                   status |-> "new",
                   acknowledged |-> PyBool(FALSE)]))

\* mutant: a block action that marks nothing
ActionBlockNothing(event, action, policy) == event

\* _action_block
ActionBlock(event, action, policy) ==
    IF Get(action, "enabled", TRUE)
    THEN SetKey(SetKey(event, "blocked", PyBool(TRUE)), "block_reason",
                Get(action, "message", PyStr(BlockedBy \o PolicyName(policy))))
    ELSE event

\* _action_quarantine
ActionQuarantine(event, action, policy) ==
    IF Get(action, "enabled", TRUE) /\ "file" \in DOMAIN event.v
    THEN SetKey(SetKey(SetKey(event, "quarantined", PyBool(TRUE)), "quarantine_path",
                       Get(action, "destination", PyStr(QuarantineDir))),
                "quarantine_reason", PyStr(QuarantinedBy \o PolicyName(policy)))
    ELSE event

\* _action_notify
ActionNotify(event, action, policy) ==
    SetKey(event, "notifications",
           PyList(Append(Get(event.v, "notifications", PyList(<<>>)).v,
                         PyDict([channels |-> Get(action, "channels", <<>>),
                                 message |-> Get(action, "message",
                                                 PyStr(PolicyViolation \o PolicyName(policy)))]))))

\* one pass of the action loop of _execute_rule_actions
ApplyAction(event, action, policy) ==
    LET action_type == Get(action, "type", "None")
    IN  CASE action_type = "alert" -> ActionAlert(event, action, policy)
          [] action_type = "block" -> ActionBlock(event, action, policy)
          [] action_type = "quarantine" -> ActionQuarantine(event, action, policy)
          [] action_type = "notify" -> ActionNotify(event, action, policy)
          [] OTHER -> event

\* An action entry that is not a mapping (a bare string in the YAML list):
\* action.get raises AttributeError
IsMapping(action) == DOMAIN action \subseteq {"type", "enabled", "message", "severity",
                                             "channels", "destination"}

\* PolicyEngine._execute_rule_actions from the i-th action on: the event
\* afterwards and whether the loop raised
RECURSIVE ExecuteActionsFrom(_, _, _, _)
ExecuteActionsFrom(event, actions, i, policy) ==
    IF i > Len(actions) THEN [event |-> event, raised |-> FALSE]
    ELSE IF ~IsMapping(actions[i]) THEN [event |-> event, raised |-> TRUE]
    ELSE ExecuteActionsFrom(ApplyAction(event, actions[i], policy), actions, i + 1, policy)

ExecuteRuleActions(event, rule, policy) ==
    ExecuteActionsFrom(event, Get(rule, "actions", <<>>), 1, policy)

-----------------------------------------------------------------------------
(* PolicyEngine.evaluate_event                                              *)

DefaultEnginePriority == 100

EngMatch(policy, rule) ==
    [policy_id |-> Get(policy, "id", "None"),
     policy_name |-> PolicyName(policy),
     rule_id |-> Get(rule, "id", "None"),
     rule_name |-> Get(rule, "name", "None"),
     severity |-> Get(policy, "severity", "medium"),
     actions |-> Get(rule, "actions", <<>>)]

RECURSIVE RulesFrom(_, _, _)

\* lines 194-216: the rule matched; a is what _execute_rule_actions did
AfterActions(st, policy, j, a) ==
    IF a.raised
    THEN [event |-> a.event, matched |-> Append(st.matched, EngMatch(policy, policy.rules[j])),
          raised |-> TRUE]
    ELSE IF Get(policy, "stop_on_match", FALSE)
    THEN [event |-> a.event, matched |-> Append(st.matched, EngMatch(policy, policy.rules[j])),
          raised |-> FALSE]
    ELSE RulesFrom([event |-> a.event,
                    matched |-> Append(st.matched, EngMatch(policy, policy.rules[j])),
                    raised |-> FALSE], policy, j + 1)

\* line 193 onwards, r being what _evaluate_rule returned
AfterRule(st, policy, j, r) ==
    IF r = "raise" THEN [st EXCEPT !.raised = TRUE]
    ELSE IF r = "false" THEN RulesFrom(st, policy, j + 1)
    ELSE AfterActions(st, policy, j, ExecuteRuleActions(st.event, policy.rules[j], policy))

\* the inner loop of evaluate_event over the rules of one policy, from the
\* j-th rule on; st is [event, matched, raised]
RulesFrom(st, policy, j) ==
    IF j > Len(Get(policy, "rules", <<>>)) THEN st
    ELSE AfterRule(st, policy, j, EngEvaluateRule(st.event, policy.rules[j]))

\* one pass of the outer loop of evaluate_event (lines 184-216)
EngApplyPolicy(st, policy_data) ==
    IF ~Get(Get(policy_data, "policy", EmptyDict), "enabled", TRUE) THEN st
    ELSE RulesFrom(st, Get(policy_data, "policy", EmptyDict), 1)

\* datetime.utcnow().isoformat()
IsoFormat(t) == PyStr(DecimalDigits(t))

\* lines 218-224: the results are attached to the event
EngFinish(st, t) ==
    IF st.raised \/ st.matched = <<>> THEN st
    ELSE [st EXCEPT !.event =
            SetKey(SetKey(SetKey(st.event, "policy", [t |-> "match", v |-> st.matched[1]]),
                          "policies_matched",
                          PyList([i \in 1..Len(st.matched) |->
                                    [t |-> "match", v |-> st.matched[i]]])),
                   "policy_evaluated_at", IsoFormat(t))]

RECURSIVE EngPoliciesFrom(_, _, _)
EngPoliciesFrom(st, pols, i) ==
    IF st.raised \/ i > Len(pols) THEN st
    ELSE EngPoliciesFrom(EngApplyPolicy(st, pols[i]), pols, i + 1)

\* PolicyEngine.evaluate_event as one call on the list pols
EngEvaluateEvent(pols, event, t) ==
    IF pols = <<>> THEN [event |-> event, matched |-> <<>>, raised |-> FALSE]
    ELSE EngFinish(EngPoliciesFrom([event |-> event, matched |-> <<>>, raised |-> FALSE],
                                   pols, 1), t)

-----------------------------------------------------------------------------
(* PolicyEngine.load_policies                                               *)

RuleOk(rule) == {"id", "conditions", "actions"} \subseteq DOMAIN rule

\* PolicyEngine._validate_policy
ValidatePolicy(policy_data) ==
    /\ "policy" \in DOMAIN policy_data
    /\ {"id", "name", "rules"} \subseteq DOMAIN policy_data.policy
    /\ policy_data.policy.rules # <<>>
    /\ \A i \in 1..Len(policy_data.policy.rules) : RuleOk(policy_data.policy.rules[i])

\* the keys _compile_policy_patterns adds for one rule
RulePatternKeys(policy_id, rule) ==
    {<<policy_id, rule.id, rule.conditions[j].value.v>> :
        j \in {k \in 1..Len(rule.conditions) :
                /\ Get(rule.conditions[k], "operator", "") = "regex"
                /\ Get(rule.conditions[k], "value", PyNone).t = "str"
                /\ rule.conditions[k].value.v # <<>>
                /\ ValidPattern(rule.conditions[k].value.v)}}

\* PolicyEngine._compile_policy_patterns: the keys added for one policy
PatternKeys(policy_data) ==
    UNION {RulePatternKeys(policy_data.policy.id, policy_data.policy.rules[i]) :
            i \in 1..Len(policy_data.policy.rules)}

\* lines 58-88 for one policy file: a file is [kind |-> "unparsable"], [kind
\* |-> "empty"] or [kind |-> "doc", data |-> policy_data]; ld is [policies,
\* patterns]
LoadFile(ld, file) ==
    IF file.kind # "doc" THEN ld
    ELSE IF ~ValidatePolicy(file.data) THEN ld
    ELSE [policies |-> Append(ld.policies, file.data),
          patterns |-> ld.patterns \cup PatternKeys(file.data)]

EnginePriority(policy_data) ==
    Get(Get(policy_data, "policy", EmptyDict), "priority", DefaultEnginePriority)

\* mutant: reverse=True, as PolicyEvaluator.load_policy sorts
SortEngineDescending(s) ==
    LET rank(i) == 1 + Cardinality({j \in 1..Len(s) :
                        EnginePriority(s[j]) > EnginePriority(s[i])
                        \/ (EnginePriority(s[j]) = EnginePriority(s[i]) /\ j < i)})
    IN  [r \in 1..Len(s) |-> s[CHOOSE i \in 1..Len(s) : rank(i) = r]]

\* lines 91-93: list.sort(key=priority): ascending by key, and stable
SortEngine(s) ==
    LET rank(i) == 1 + Cardinality({j \in 1..Len(s) :
                        EnginePriority(s[j]) < EnginePriority(s[i])
                        \/ (EnginePriority(s[j]) = EnginePriority(s[i]) /\ j < i)})
    IN  [r \in 1..Len(s) |-> s[CHOOSE i \in 1..Len(s) : rank(i) = r]]

RECURSIVE LoadFilesFrom(_, _, _)
LoadFilesFrom(ld, files, i) ==
    IF i > Len(files) THEN ld ELSE LoadFilesFrom(LoadFile(ld, files[i]), files, i + 1)

\* PolicyEngine.load_policies as one call, on the files the directory holds
LoadPolicies(ld, files) ==
    IF files = <<>> THEN ld
    ELSE [LoadFilesFrom(ld, files, 1) EXCEPT !.policies = SortEngine(@)]

\* PolicyEngine.reload_policies as one call
ReloadPolicies(files) == LoadPolicies([policies |-> <<>>, patterns |-> {}], files)

-----------------------------------------------------------------------------
(* DLPClassifier.  Content is a string over digits, lower-case letters and  *)
(* the space; a word is a maximal run of digits and letters, which is what  *)
(* lies between two \b of a pattern.  Scores are kept in thousandths.       *)

Letters == {"a", "b", "c", "d", "e", "f", "g", "h", "i", "j", "k", "l", "m",
            "n", "o", "p", "q", "r", "s", "t", "u", "v", "w", "x", "y", "z"}

IsWordChar(c) == c \in Digits \cup Letters

\* the words of cs from position i on; cur is the word being read
RECURSIVE WordsFrom(_, _, _)
WordsFrom(cs, i, cur) ==
    IF i > Len(cs) THEN (IF cur = <<>> THEN <<>> ELSE <<cur>>)
    ELSE IF IsWordChar(cs[i]) THEN WordsFrom(cs, i + 1, Append(cur, cs[i]))
    ELSE (IF cur = <<>> THEN <<>> ELSE <<cur>>) \o WordsFrom(cs, i + 1, <<>>)

Words(content) == WordsFrom(content, 1, <<>>)

\* _load_regex_patterns, in the order of the dict
RegexPatterns ==
    <<[label |-> "PAN", pattern |-> "visa"],
      [label |-> "PAN", pattern |-> "mastercard"],
      [label |-> "PAN", pattern |-> "amex"],
      [label |-> "PAN", pattern |-> "discover"],
      [label |-> "SSN", pattern |-> "ssn_dashed"],
      [label |-> "SSN", pattern |-> "ssn_plain"],
      [label |-> "EMAIL", pattern |-> "email"],
      [label |-> "PHONE", pattern |-> "phone_us"],
      [label |-> "PHONE", pattern |-> "phone_international"],
      [label |-> "API_KEY", pattern |-> "aws"],
      [label |-> "API_KEY", pattern |-> "api_key"],
      [label |-> "SECRET", pattern |-> "secret"],
      [label |-> "SECRET", pattern |-> "password"],
      [label |-> "IP_ADDRESS", pattern |-> "ipv4"]>>

\* the word w is a match of the pattern.  The patterns that need a
\* character no content has ("-", ".", "+", "@", ":", "=", a capital) match
\* nothing.
WordMatches(pattern, w) ==
    CASE pattern = "visa" -> IsDigitString(w) /\ Len(w) \in {13, 16} /\ w[1] = "4"
      [] pattern = "mastercard" ->
            IsDigitString(w) /\ Len(w) = 16 /\ w[1] = "5" /\ w[2] \in {"1", "2", "3", "4", "5"}
      [] pattern = "amex" -> IsDigitString(w) /\ Len(w) = 15 /\ w[1] = "3" /\ w[2] \in {"4", "7"}
      [] pattern = "discover" ->
            /\ IsDigitString(w) /\ Len(w) = 16 /\ w[1] = "6"
            /\ (SubSeq(w, 2, 4) = <<"0", "1", "1">> \/ w[2] = "5")
      [] pattern = "ssn_plain" -> IsDigitString(w) /\ Len(w) = 9
      [] pattern = "phone_us" -> IsDigitString(w) /\ Len(w) = 10
      [] OTHER -> FALSE

\* pattern.findall(content), words being the words of the content
FindAll(pattern, words) == SelectSeq(words, LAMBDA w : WordMatches(pattern, w))

\* the loop of _validate_luhn over reversed(digits), i counting from 0
RECURSIVE ReversedSum(_, _)
ReversedSum(ds, i) ==
    IF ds = <<>> THEN 0
    ELSE (IF i % 2 = 1
          THEN (IF 2 * DigitOf(ds[Len(ds)]) > 9 THEN 2 * DigitOf(ds[Len(ds)]) - 9
                ELSE 2 * DigitOf(ds[Len(ds)]))
          ELSE DigitOf(ds[Len(ds)]))
         + ReversedSum(SubSeq(ds, 1, Len(ds) - 1), i + 1)

\* mutant: the doubling starts at the last digit
ValidateLuhnShifted(card_number) ==
    ReversedSum(SelectSeq(card_number, LAMBDA c : c \in Digits), 1) % 10 = 0

\* DLPClassifier._validate_luhn
ValidateLuhn(card_number) ==
    ReversedSum(SelectSeq(card_number, LAMBDA c : c \in Digits), 0) % 10 = 0

\* m.replace('-', '').isdigit()
IsCandidate(m) == IsDigitString(SelectSeq(m, LAMBDA c : c # "-"))

\* line 142: the PAN matches of one pattern are dropped together
PanRejected(label, matches) ==
    label = "PAN" /\ \E i \in 1..Len(matches) : IsCandidate(matches[i]) /\ ~ValidateLuhn(matches[i])

\* lines 139-147 for one pattern whose matches are given; st is [labels,
\* match_counts]
AfterFindAll(label, matches, st) ==
    IF matches = <<>> \/ PanRejected(label, matches) THEN st
    ELSE [labels |-> IF \E i \in 1..Len(st.labels) : st.labels[i] = label THEN st.labels
                     ELSE Append(st.labels, label),
          match_counts |-> Store(st.match_counts, label,
                                 Get(st.match_counts, label, 0) + Len(matches))]

\* lines 137-147 from the k-th pattern on
RECURSIVE PatternsFrom(_, _, _)
PatternsFrom(words, k, st) ==
    IF k > Len(RegexPatterns) THEN st
    ELSE PatternsFrom(words, k + 1,
                      AfterFindAll(RegexPatterns[k].label,
                                   FindAll(RegexPatterns[k].pattern, words), st))

Max(a, b) == IF a >= b THEN a ELSE b

RECURSIVE MaxOf(_)
MaxOf(xs) == IF Len(xs) = 1 THEN xs[1] ELSE Max(xs[1], MaxOf(Tail(xs)))

\* lines 150-156: min(0.9 * (max_count / 5), 0.95), in thousandths
DensityScore(st) ==
    IF st.labels = <<>> THEN [score |-> 0, labels |-> <<>>]
    ELSE [score |-> Min(180 * MaxOf([i \in 1..Len(st.labels) |-> st.match_counts[st.labels[i]]]),
                        950),
          labels |-> st.labels]

\* DLPClassifier._regex_detection
RegexDetection(content) ==
    DensityScore(PatternsFrom(Words(content), 1, [labels |-> <<>>, match_counts |-> EmptyDict]))

\* math.log2(k) in millionths, for k = 1..64
Log2Table ==
    <<0, 1000000, 1584963, 2000000, 2321928, 2584963, 2807355, 3000000,
      3169925, 3321928, 3459432, 3584963, 3700440, 3807355, 3906891, 4000000,
      4087463, 4169925, 4247928, 4321928, 4392317, 4459432, 4523562, 4584963,
      4643856, 4700440, 4754888, 4807355, 4857981, 4906891, 4954196, 5000000,
      5044394, 5087463, 5129283, 5169925, 5209453, 5247928, 5285402, 5321928,
      5357552, 5392317, 5426265, 5459432, 5491853, 5523562, 5554589, 5584963,
      5614710, 5643856, 5672425, 5700440, 5727920, 5754888, 5781360, 5807355,
      5832890, 5857981, 5882643, 5906891, 5930737, 5954196, 5977280, 6000000>>

\* the characters of a string and how often each occurs
CharsOf(content) == {content[i] : i \in 1..Len(content)}

CharCount(content, c) == Cardinality({i \in 1..Len(content) : content[i] = c})

RECURSIVE WeightedLogs(_, _)
WeightedLogs(content, chars) ==
    IF chars = {} THEN 0
    ELSE LET c == CHOOSE x \in chars : TRUE
         IN  CharCount(content, c) * Log2Table[CharCount(content, c)]
             + WeightedLogs(content, chars \ {c})

\* Len(content) * (entropy - 3.5) in millionths, entropy being the sum of
\* -p * log2(p) that _calculate_entropy returns
EntropyExcess(content) ==
    Len(content) * Log2Table[Len(content)] - WeightedLogs(content, CharsOf(content))
    - 3500000 * Len(content)

\* entropy > 3.5 (line 98); the table is rounded, so an excess this close to
\* zero can come out either way
AboveWithin(excess, margin) ==
    IF excess > margin THEN {TRUE}
    ELSE IF excess < -margin THEN {FALSE}
    ELSE {TRUE, FALSE}

EntropyAbove(content) ==
    IF content = <<>> THEN {FALSE} ELSE AboveWithin(EntropyExcess(content), Len(content))

\* classify, lines 79-108: the three lists after each detector; high is the
\* outcome of entropy > 3.5.  hashlib.sha256 keeps apart the contents of the
\* model, so the fingerprints are kept as the contents themselves.
AfterFingerprint(content, fingerprints) ==
    IF content \in fingerprints
    THEN [scores |-> <<1000>>, labels |-> <<"KNOWN_SENSITIVE_DOC">>, methods |-> <<"fingerprint">>]
    ELSE [scores |-> <<>>, labels |-> <<>>, methods |-> <<>>]

AfterRegex(l, r) ==
    IF r.score > 0
    THEN [scores |-> Append(l.scores, r.score), labels |-> l.labels \o r.labels,
          methods |-> Append(l.methods, "regex")]
    ELSE l

AfterEntropy(l, high) ==
    IF high
    THEN [scores |-> Append(l.scores, 700), labels |-> Append(l.labels, "HIGH_ENTROPY"),
          methods |-> Append(l.methods, "entropy")]
    ELSE l

Detections(content, fingerprints, high) ==
    AfterEntropy(AfterRegex(AfterFingerprint(content, fingerprints), RegexDetection(content)),
                 high)

SetOf(xs) == {xs[i] : i \in 1..Len(xs)}

RECURSIVE SumOf(_)
SumOf(xs) == IF xs = <<>> THEN 0 ELSE Head(xs) + SumOf(Tail(xs))

\* DLPClassifier._calculate_confidence as the fraction num / den:
\* avg_score * (0.7 + 0.15 * min(method_count, 3) / 3) / (1 + 0.1 * labels)
Confidence(scores, labels) ==
    IF scores = <<>> THEN [num |-> 0, den |-> 1]
    ELSE [num |-> SumOf(scores) * (700 + 50 * Min(Len(scores), 3)) * 10,
          den |-> Len(scores) * 1000 * 1000 * (10 + Cardinality(SetOf(labels)))]

\* the orders list(set(labels)) can give
Orders(S) == {f \in [1..Cardinality(S) -> S] : \A i, j \in 1..Cardinality(S) : f[i] = f[j] => i = j}

\* classify, lines 111-122; order is the order list(set(labels)) gave
Classification(l, order, high) ==
    [score |-> Min(IF l.scores = <<>> THEN 0 ELSE MaxOf(l.scores), 1000),
     labels |-> order,
     methods |-> SetOf(l.methods),
     confidence |-> Confidence(l.scores, l.labels),
     high_entropy |-> high]

-----------------------------------------------------------------------------
(* Inputs of the PolicyEvaluator runs                                       *)

MaxTicks == 3     \* the clock stops after this many ticks
MaxEvals == 4     \* evaluate_event calls in one run

\* one tick of the clock: two minutes
TickSeconds == 2 * Units("m")

Outbound == <<"o", "u", "t">>
Inbound == <<"i", "n">>
User1 == <<"u", "1">>
User2 == <<"u", "2">>
User3 == <<"u", "3">>

UserEvent(user, direction) ==
    PyDict([user_id |-> PyStr(user),
            event |-> PyDict([direction |-> PyStr(direction)])])

AnonymousEvent ==
    PyDict([event |-> PyDict([direction |-> PyStr(Outbound)])])

EventPool ==
    {UserEvent(User1, Outbound), UserEvent(User2, Outbound),
     UserEvent(User3, Outbound), UserEvent(User1, Inbound), AnonymousEvent}

IsOutbound ==
    [field |-> <<"event", "direction">>, operator |-> "==", value |-> PyStr(Outbound)]

\* window 5m, threshold count 3
PolCount ==
    [id |-> "pol-count", name |-> "count", priority |-> 50,
     conditions |-> [all |-> <<IsOutbound>>],
     stateful |-> [window |-> PyStr(<<"5", "m">>), threshold |-> [count |-> 3]],
     actions |-> <<[type |-> "alert"]>>]

\* window 5m, threshold count 3 over distinct user_id
PolDistinct ==
    [id |-> "pol-distinct", name |-> "distinct", priority |-> 100,
     conditions |-> IsOutbound,
     stateful |-> [window |-> PyStr(<<"5", "m">>),
                   threshold |-> [count |-> 3, distinct_field |-> <<"user_id">>]],
     actions |-> <<[type |-> "block"], [type |-> "log"]>>]

\* no stateful clause
PolPlain ==
    [id |-> "pol-plain", name |-> "plain", priority |-> 10,
     conditions |-> [any |-> <<IsOutbound>>],
     actions |-> <<[type |-> "block"], [type |-> "alert"]>>]

\* enabled: false; its conditions hold for every event
PolDisabled ==
    [id |-> "pol-off", name |-> "off", priority |-> 75, enabled |-> FALSE,
     conditions |-> [all |-> <<>>],
     stateful |-> [window |-> PyStr(<<"5", "m">>), threshold |-> [count |-> 1]],
     actions |-> <<[type |-> "quarantine"]>>]

IsInbound ==
    [field |-> <<"event", "direction">>, operator |-> "==", value |-> PyStr(Inbound)]

\* window: 300, a YAML integer where _parse_duration expects a string
PolBadWindow ==
    [id |-> "pol-window", name |-> "window", priority |-> 5,
     conditions |-> IsInbound,
     stateful |-> [window |-> PyInt(300), threshold |-> [count |-> 1]],
     actions |-> <<[type |-> "alert"]>>]

\* window: "5x", which _parse_duration does not recognise; threshold count 2
PolFallback ==
    [id |-> "pol-fallback", name |-> "fallback", priority |-> 20,
     conditions |-> IsOutbound,
     stateful |-> [window |-> PyStr(<<"5", "x">>), threshold |-> [count |-> 2]],
     actions |-> <<[type |-> "alert"]>>]

\* window 2m, the length of one tick; threshold count 2
PolEdge ==
    [id |-> "pol-edge", name |-> "edge", priority |-> 40,
     conditions |-> IsOutbound,
     stateful |-> [window |-> PyStr(<<"2", "m">>), threshold |-> [count |-> 2]],
     actions |-> <<[type |-> "alert"]>>]

\* a zero-length window; threshold count 1
PolZero ==
    [id |-> "pol-zero", name |-> "zero", priority |-> 30,
     conditions |-> IsOutbound,
     stateful |-> [window |-> PyStr(<<"0", "s">>), threshold |-> [count |-> 1]],
     actions |-> <<[type |-> "alert"]>>]

\* a policy file without a conditions key
PolNoConditions ==
    [id |-> "pol-bare", name |-> "bare", priority |-> 60,
     actions |-> <<[type |-> "alert"]>>]

\* the policy files of the deployment, in the order they are loaded at start
StartupPolicies ==
    <<PolPlain, PolDistinct, PolCount, PolDisabled, PolBadWindow, PolFallback, PolEdge,
      PolNoConditions, PolZero>>

LoadedIds == {policies[i].id : i \in 1..Len(policies)}

-----------------------------------------------------------------------------
(* PolicyEvaluator: one action per call                                     *)

EvaluatorInit ==
    /\ policies = <<>>
    /\ state_tracker = EmptyDict
    /\ now = 0
    /\ hist = <<>>

\* load_policy(policy_yaml): the policy files are loaded one by one at start,
\* before the first event is evaluated
LoadPolicy ==
    /\ Len(policies) < Len(StartupPolicies)
    /\ policies' = LoadPolicyResult(policies, StartupPolicies[Len(policies) + 1])
    /\ UNCHANGED <<state_tracker, now, hist>>
    /\ UNCHANGED nonEvaluatorVars

\* the call leaves the tracker as r has it and hands r.matches to the caller
Returned(event, r) ==
    /\ state_tracker' = r.tracker
    /\ hist' = Append(hist, [t |-> now, event |-> event,
                             matches |-> r.matches, raised |-> r.raised])

\* evaluate_event(event); events are served once the start-up loads are done
EvaluateEvent(event) ==
    /\ Len(policies) = Len(StartupPolicies)
    /\ Len(hist) < MaxEvals
    /\ Returned(event, EvaluateEventResult(policies, state_tracker, now, event))
    /\ UNCHANGED <<policies, now>>
    /\ UNCHANGED nonEvaluatorVars

\* time passes between calls
Tick ==
    /\ Len(policies) = Len(StartupPolicies)
    /\ now + TickSeconds <= MaxTicks * TickSeconds
    /\ now' = now + TickSeconds
    /\ UNCHANGED <<policies, state_tracker, hist>>
    /\ UNCHANGED nonEvaluatorVars

EvaluatorNext ==
    \/ LoadPolicy
    \/ \E event \in EventPool : EvaluateEvent(event)
    \/ Tick

-----------------------------------------------------------------------------
(* PolicyEvaluator fed with policy texts of any kind, then with events      *)

MaxLoads == 2     \* entries load_policy may leave in the list

\* user_id: null
NullUserEvent ==
    PyDict([user_id |-> PyNone, event |-> PyDict([direction |-> PyStr(Outbound)])])

LoadEvents ==
    {UserEvent(User1, Outbound), UserEvent(User2, Outbound), AnonymousEvent, NullUserEvent}

\* the texts handed to load_policy: two policies, an empty text and a text
\* that is not YAML
YamlPool ==
    {[kind |-> "doc", data |-> PolDistinct], [kind |-> "doc", data |-> PolPlain],
     [kind |-> "empty"], [kind |-> "unparsable"]}

\* load_policy(policy_yaml), before the first event is evaluated
LoadYaml(file) ==
    /\ hist = <<>>
    /\ Len(policies) < MaxLoads
    /\ policies' = LoadYamlResult(policies, file).policies
    /\ UNCHANGED <<state_tracker, now, hist>>
    /\ UNCHANGED nonEvaluatorVars

\* evaluate_event(event) on whatever the loads left
EvaluateLoaded(event) ==
    /\ Len(hist) < MaxEvals
    /\ Returned(event, EvaluateEventResult(policies, state_tracker, now, event))
    /\ UNCHANGED <<policies, now>>
    /\ UNCHANGED nonEvaluatorVars

LoadNext ==
    \/ \E file \in YamlPool : LoadYaml(file)
    \/ \E event \in LoadEvents : EvaluateLoaded(event)

-----------------------------------------------------------------------------
(* Two threads in PolicyEvaluator._evaluate_stateful for the same policy.   *)
(* The method takes no lock; a thread switch can fall between any two of    *)
(* its reads and writes of self.state_tracker.  list.append and the reading *)
(* of a list are single steps.                                              *)

Threads == {1, 2}

\* window 5m, threshold count 2
PolRace ==
    [id |-> "pol-race", name |-> "race", priority |-> 100,
     conditions |-> IsOutbound,
     stateful |-> [window |-> PyStr(<<"5", "m">>), threshold |-> [count |-> 2]],
     actions |-> <<[type |-> "alert"]>>]

\* the event each thread evaluates
ThreadEvent(th) == IF th = 1 THEN UserEvent(User1, Outbound) ELSE UserEvent(User2, Outbound)

\* the window lists the policy may hold when the two calls start
InitialWindows ==
    {<<>>,
     <<[timestamp |-> 0, event |-> UserEvent(User3, Outbound)]>>}

NoLocals == [absent |-> FALSE, lst |-> 0, filtered |-> <<>>, result |-> FALSE]

RaceIdle ==
    /\ rc_tracker = EmptyDict
    /\ rc_heap = <<>>
    /\ rc_pc = [th \in Threads |-> "done"]
    /\ rc_loc = [th \in Threads |-> NoLocals]
    /\ rc_init = EmptyDict

\* both calls are about to enter _evaluate_stateful; the policy's window is
\* absent from the tracker, or present with one of InitialWindows
RaceInit ==
    /\ \/ rc_tracker = EmptyDict /\ rc_heap = <<>>
       \/ \E w \in InitialWindows :
            rc_tracker = Store(EmptyDict, PolRace.id, 1) /\ rc_heap = <<w>>
    /\ rc_pc = [th \in Threads |-> "l187"]
    /\ rc_loc = [th \in Threads |-> NoLocals]
    /\ rc_init = [id \in DOMAIN rc_tracker |-> rc_heap[rc_tracker[id]]]

SetLoc(th, field, val) == rc_loc' = [rc_loc EXCEPT ![th][field] = val]

\* line 187: if policy_id not in self.state_tracker
CheckPresent(th) ==
    /\ rc_pc[th] = "l187"
    /\ SetLoc(th, "absent", PolRace.id \notin DOMAIN rc_tracker)
    /\ rc_pc' = [rc_pc EXCEPT ![th] =
                    IF PolRace.id \notin DOMAIN rc_tracker THEN "l188" ELSE "l191"]
    /\ UNCHANGED <<rc_tracker, rc_heap, rc_init>>
    /\ UNCHANGED nonRaceVars

\* line 188: self.state_tracker[policy_id] = []
StoreEmpty(th) ==
    /\ rc_pc[th] = "l188"
    /\ rc_heap' = Append(rc_heap, <<>>)
    /\ rc_tracker' = Store(rc_tracker, PolRace.id, Len(rc_heap) + 1)
    /\ rc_pc' = [rc_pc EXCEPT ![th] = "l191"]
    /\ UNCHANGED <<rc_loc, rc_init>>
    /\ UNCHANGED nonRaceVars

\* line 191: self.state_tracker[policy_id] is read ...
LoadForAppend(th) ==
    /\ rc_pc[th] = "l191"
    /\ SetLoc(th, "lst", rc_tracker[PolRace.id])
    /\ rc_pc' = [rc_pc EXCEPT ![th] = "l191append"]
    /\ UNCHANGED <<rc_tracker, rc_heap, rc_init>>
    /\ UNCHANGED nonRaceVars

\* ... and .append({'timestamp': ..., 'event': event}) is called on that list
AppendEntry(th) ==
    /\ rc_pc[th] = "l191append"
    /\ rc_heap' = [rc_heap EXCEPT ![rc_loc[th].lst] =
                      Append(@, [timestamp |-> now, event |-> ThreadEvent(th)])]
    /\ rc_pc' = [rc_pc EXCEPT ![th] = "l198"]
    /\ UNCHANGED <<rc_tracker, rc_loc, rc_init>>
    /\ UNCHANGED nonRaceVars

\* lines 197-201: the comprehension reads the current list and builds the
\* pruned one ...
BuildPruned(th) ==
    /\ rc_pc[th] = "l198"
    /\ SetLoc(th, "filtered",
              KeepNewer(rc_heap[rc_tracker[PolRace.id]],
                        now - ParseDuration(PolRace.stateful.window.v)))
    /\ rc_pc' = [rc_pc EXCEPT ![th] = "l198store"]
    /\ UNCHANGED <<rc_tracker, rc_heap, rc_init>>
    /\ UNCHANGED nonRaceVars

\* ... and self.state_tracker[policy_id] = <pruned list> stores it
StorePruned(th) ==
    /\ rc_pc[th] = "l198store"
    /\ rc_heap' = Append(rc_heap, rc_loc[th].filtered)
    /\ rc_tracker' = Store(rc_tracker, PolRace.id, Len(rc_heap) + 1)
    /\ rc_pc' = [rc_pc EXCEPT ![th] = "l204"]
    /\ UNCHANGED <<rc_loc, rc_init>>
    /\ UNCHANGED nonRaceVars

\* line 204: events_in_window = self.state_tracker[policy_id]
LoadForCount(th) ==
    /\ rc_pc[th] = "l204"
    /\ SetLoc(th, "lst", rc_tracker[PolRace.id])
    /\ rc_pc' = [rc_pc EXCEPT ![th] = "l215"]
    /\ UNCHANGED <<rc_tracker, rc_heap, rc_init>>
    /\ UNCHANGED nonRaceVars

\* lines 206-218: count and compare with the threshold
CountAndReturn(th) ==
    /\ rc_pc[th] = "l215"
    /\ SetLoc(th, "result",
              CountInWindow(rc_heap[rc_loc[th].lst],
                            Get(PolRace.stateful.threshold, "distinct_field", <<>>))
                >= PolRace.stateful.threshold.count)
    /\ rc_pc' = [rc_pc EXCEPT ![th] = "done"]
    /\ UNCHANGED <<rc_tracker, rc_heap, rc_init>>
    /\ UNCHANGED nonRaceVars

RaceNext ==
    \E th \in Threads :
        \/ CheckPresent(th)
        \/ StoreEmpty(th)
        \/ LoadForAppend(th)
        \/ AppendEntry(th)
        \/ BuildPruned(th)
        \/ StorePruned(th)
        \/ LoadForCount(th)
        \/ CountAndReturn(th)

-----------------------------------------------------------------------------
(* PolicyEngine: one thread loads and reloads, one calls evaluate_event.    *)
(* The class takes no lock.  self.policies names a list object; a thread    *)
(* switch can fall between any two reads or writes of the attribute or of   *)
(* the list.  list.append and the reading of one item are single steps;     *)
(* list.sort empties the list object while it sorts and puts the sorted     *)
(* items back when it is done.                                              *)

MaxReloads == 2
MaxCalls == 2

FileType == PyStr(<<"f", "i", "l", "e">>)
ClipboardType == PyStr(<<"c", "l", "i", "p">>)
UsbType == PyStr(<<"u", "s", "b">>)

FileEvent == PyDict([type |-> FileType, file |-> PyDict([path |-> PyStr(<<"/", "a">>)])])
ClipboardEvent == PyDict([type |-> ClipboardType])

EngineEvents == {FileEvent, ClipboardEvent}

OneRule(id, condition, action) ==
    <<[id |-> id, name |-> id, conditions |-> <<condition>>, actions |-> <<action>>]>>

FileA10 == [kind |-> "doc", data |-> [policy |->
    [id |-> "a10", name |-> <<"a", "1", "0">>, priority |-> 10,
     rules |-> OneRule("r1", [field |-> <<"type">>, operator |-> "regex",
                              value |-> PyStr(<<"f", "i">>)],
                       [type |-> "alert"])]]]

FileA100 == [kind |-> "doc", data |-> [policy |->
    [id |-> "a100", name |-> <<"a", "1", "0", "0">>, priority |-> 100,
     rules |-> OneRule("r1", [field |-> <<"type">>, operator |-> "in",
                              value |-> PyList(<<FileType, ClipboardType>>)],
                       [type |-> "notify"])]]]

FileA50 == [kind |-> "doc", data |-> [policy |->
    [id |-> "a50", name |-> <<"a", "5", "0">>, priority |-> 50,
     rules |-> OneRule("r1", [field |-> <<"type">>, operator |-> "exists"],
                       [type |-> "block"])]]]

FileB20 == [kind |-> "doc", data |-> [policy |->
    [id |-> "b20", name |-> <<"b", "2", "0">>, priority |-> 20,
     rules |-> OneRule("r1", [field |-> <<"type">>, operator |-> "not_equals",
                              value |-> UsbType],
                       [type |-> "quarantine"])]]]

FileB5 == [kind |-> "doc", data |-> [policy |->
    [id |-> "b5", name |-> <<"b", "5">>, priority |-> 5, stop_on_match |-> TRUE,
     rules |-> OneRule("r1", [field |-> <<"type">>, operator |-> "equals", value |-> FileType],
                       [type |-> "block"])]]]

FileUnparsable == [kind |-> "unparsable"]

\* no policy.name
FileNoName == [kind |-> "doc", data |-> [policy |->
    [id |-> "b-noname", priority |-> 30,
     rules |-> OneRule("r1", [field |-> <<"type">>, operator |-> "exists"],
                       [type |-> "alert"])]]]

\* a condition whose operator evaluate_event does not know
FileBadOperator == [kind |-> "doc", data |-> [policy |->
    [id |-> "b-badop", name |-> <<"b", "o">>, priority |-> 40,
     rules |-> OneRule("r1", [field |-> <<"type">>, operator |-> "matches_glob",
                              value |-> FileType],
                       [type |-> "alert"])]]]

\* a regex condition whose pattern re.compile rejects
FileBadRegex == [kind |-> "doc", data |-> [policy |->
    [id |-> "b-badre", name |-> <<"b", "r">>, priority |-> 60,
     rules |-> OneRule("r1", [field |-> <<"type">>, operator |-> "regex",
                              value |-> PyStr(<<"(", "f">>)],
                       [type |-> "alert"])]]]

\* the directory before and after the administrator's edit
DiskA == <<FileA10, FileA100, FileA50>>
\* actions: [block, {type: alert}]: the first entry is a bare string
FileBareAction == [kind |-> "doc", data |-> [policy |->
    [id |-> "b-bare", name |-> <<"b", "a">>, priority |-> 200,
     rules |-> <<[id |-> "r1", name |-> "r1",
                  conditions |-> <<[field |-> <<"type">>, operator |-> "regex",
                                    value |-> PyStr(<<"c", "l", "i", "p">>)]>>,
                  actions |-> <<PyStr(<<"b", "l", "o", "c", "k">>), [type |-> "alert"]>>]>>]]]

DiskB ==
    <<FileB20, FileUnparsable, FileB5, FileNoName, FileBadOperator, FileBadRegex,
      FileBareAction>>

PolicyIdOf(policy_data) == policy_data.policy.id

IdsOf(pols) == [i \in 1..Len(pols) |-> PolicyIdOf(pols[i])]

NoCall == [pc |-> "idle", event |-> PyNone, ref |-> 0, idx |-> 0,
           st |-> [event |-> PyNone, matched |-> <<>>, raised |-> FALSE],
           seen |-> <<>>, began |-> 0, busy |-> FALSE, calls |-> 0]

NoReturn == [done |-> FALSE, event |-> PyNone, matched |-> <<>>, seen |-> <<>>,
             skipped |-> FALSE, raised |-> FALSE, overlap |-> FALSE, swapped |-> FALSE]

\* nothing of the engine runs
EngineIdle ==
    /\ eng_policies = 1
    /\ eng_heap = <<<<>>>>
    /\ eng_patterns = {}
    /\ eng_disk = DiskA
    /\ eng_ld = [pc |-> "off", files |-> <<>>, i |-> 0, scratch |-> <<>>,
                 started |-> FALSE, gen |-> 0]
    /\ eng_ev = NoCall
    /\ eng_ret = NoReturn

\* PolicyEngine.__init__ (lines 26-32), get_policy_engine about to call
\* load_policies
EngineInit ==
    /\ eng_policies = 1
    /\ eng_heap = <<<<>>>>
    /\ eng_patterns = {}
    /\ eng_disk = DiskA
    /\ eng_ld = [pc |-> "load", files |-> <<>>, i |-> 0, scratch |-> <<>>,
                 started |-> FALSE, gen |-> 0]
    /\ eng_ev = NoCall
    /\ eng_ret = NoReturn

\* mutant: self.policies.clear(), the same list object emptied
ClearPoliciesInPlace(heap, ref) == [heap |-> [heap EXCEPT ![ref] = <<>>], ref |-> ref]

\* line 556, self.policies = []: a new list object, the old one untouched
ClearPolicies(heap, ref) == [heap |-> Append(heap, <<>>), ref |-> Len(heap) + 1]

\* the administrator replaces the files of the directory
EditDisk ==
    /\ eng_ld.pc = "idle"
    /\ eng_ld.gen < MaxReloads
    /\ eng_disk' = IF eng_disk = DiskA THEN DiskB ELSE DiskA
    /\ UNCHANGED <<eng_policies, eng_heap, eng_patterns, eng_ld, eng_ev, eng_ret>>
    /\ UNCHANGED nonEngineVars

\* reload_policies, line 556
ReloadRebind ==
    /\ eng_ld.pc = "idle"
    /\ eng_ld.gen < MaxReloads
    /\ eng_heap' = ClearPolicies(eng_heap, eng_policies).heap
    /\ eng_policies' = ClearPolicies(eng_heap, eng_policies).ref
    /\ eng_ld' = [eng_ld EXCEPT !.pc = "patterns", !.gen = @ + 1]
    /\ UNCHANGED <<eng_patterns, eng_disk, eng_ev, eng_ret>>
    /\ UNCHANGED nonEngineVars

\* mutant: compiled_patterns is left as it is
KeepPatterns(patterns) == patterns

\* line 557, self.compiled_patterns = {}
ClearPatterns(patterns) == {}

\* reload_policies, line 557
ReloadClearPatterns ==
    /\ eng_ld.pc = "patterns"
    /\ eng_patterns' = ClearPatterns(eng_patterns)
    /\ eng_ld' = [eng_ld EXCEPT !.pc = "load"]
    /\ UNCHANGED <<eng_policies, eng_heap, eng_disk, eng_ev, eng_ret>>
    /\ UNCHANGED nonEngineVars

\* load_policies, lines 38-54: the directory is listed
LoadBegin ==
    /\ eng_ld.pc = "load"
    /\ eng_ld' = IF eng_disk = <<>>
                 THEN [eng_ld EXCEPT !.pc = "idle", !.started = TRUE]
                 ELSE [eng_ld EXCEPT !.pc = "file", !.files = eng_disk, !.i = 1]
    /\ UNCHANGED <<eng_policies, eng_heap, eng_patterns, eng_disk, eng_ev, eng_ret>>
    /\ UNCHANGED nonEngineVars

\* what one pass of the loop of load_policies leaves in the list and in
\* compiled_patterns
FileLoaded(r) ==
    /\ eng_heap' = [eng_heap EXCEPT ![eng_policies] = r.policies]
    /\ eng_patterns' = r.patterns

\* load_policies, lines 57-88: one policy file
LoadOneFile ==
    /\ eng_ld.pc = "file"
    /\ FileLoaded(LoadFile([policies |-> eng_heap[eng_policies], patterns |-> eng_patterns],
                           eng_ld.files[eng_ld.i]))
    /\ eng_ld' = IF eng_ld.i = Len(eng_ld.files) THEN [eng_ld EXCEPT !.pc = "sort"]
                 ELSE [eng_ld EXCEPT !.i = @ + 1]
    /\ UNCHANGED <<eng_policies, eng_disk, eng_ev, eng_ret>>
    /\ UNCHANGED nonEngineVars

\* load_policies, line 91: list.sort takes the items out of the list object
SortBegin ==
    /\ eng_ld.pc = "sort"
    /\ eng_ld' = [eng_ld EXCEPT !.pc = "sorting", !.scratch = eng_heap[eng_policies]]
    /\ eng_heap' = [eng_heap EXCEPT ![eng_policies] = <<>>]
    /\ UNCHANGED <<eng_policies, eng_patterns, eng_disk, eng_ev, eng_ret>>
    /\ UNCHANGED nonEngineVars

\* load_policies, lines 91-99: the sorted items are put back
SortEnd ==
    /\ eng_ld.pc = "sorting"
    /\ eng_heap' = [eng_heap EXCEPT ![eng_policies] = SortEngine(eng_ld.scratch)]
    /\ eng_ld' = [eng_ld EXCEPT !.pc = "idle", !.scratch = <<>>, !.started = TRUE]
    /\ UNCHANGED <<eng_policies, eng_patterns, eng_disk, eng_ev, eng_ret>>
    /\ UNCHANGED nonEngineVars

\* the call is over: the thread is idle again and the caller has ret
EngReturned(ret) ==
    /\ eng_ret' = ret
    /\ eng_ev' = [NoCall EXCEPT !.calls = eng_ev.calls]

\* ghost: a load or reload ran at some moment of the call that ends now
Overlapped == eng_ev.busy \/ eng_ev.began # eng_ld.gen \/ eng_ld.pc # "idle"

\* evaluate_event(event), lines 178-182; events are served once
\* get_policy_engine has loaded the policies
EvalCall(event) ==
    /\ eng_ld.started
    /\ eng_ev.pc = "idle"
    /\ eng_ev.calls < MaxCalls
    /\ IF eng_heap[eng_policies] = <<>>
       THEN /\ eng_ret' = [done |-> TRUE, event |-> event, matched |-> <<>>, seen |-> <<>>,
                           skipped |-> TRUE, raised |-> FALSE,
                           overlap |-> eng_ld.pc # "idle", swapped |-> FALSE]
            /\ eng_ev' = [NoCall EXCEPT !.calls = eng_ev.calls + 1]
       ELSE /\ eng_ev' = [NoCall EXCEPT !.pc = "iter", !.event = event,
                                        !.st = [event |-> event, matched |-> <<>>,
                                                raised |-> FALSE],
                                        !.began = eng_ld.gen,
                                        !.busy = eng_ld.pc # "idle",
                                        !.calls = eng_ev.calls + 1]
            /\ UNCHANGED eng_ret
    /\ UNCHANGED <<eng_policies, eng_heap, eng_patterns, eng_disk, eng_ld>>
    /\ UNCHANGED nonEngineVars

\* line 184, iter(self.policies): the loop keeps the list object it starts on
EvalIter ==
    /\ eng_ev.pc = "iter"
    /\ eng_ev' = [eng_ev EXCEPT !.pc = "loop", !.ref = eng_policies, !.idx = 1]
    /\ UNCHANGED <<eng_policies, eng_heap, eng_patterns, eng_disk, eng_ld, eng_ret>>
    /\ UNCHANGED nonEngineVars

\* the thread after lines 185-216 for policy_data, st being the outcome
AfterPolicy(policy_data, st) ==
    IF st.raised
    THEN EngReturned([done |-> TRUE, event |-> st.event, matched |-> st.matched,
                      seen |-> Append(eng_ev.seen, PolicyIdOf(policy_data)),
                      skipped |-> FALSE, raised |-> TRUE, overlap |-> Overlapped,
                      swapped |-> eng_ev.began # eng_ld.gen])
    ELSE /\ eng_ev' = [eng_ev EXCEPT !.st = st, !.idx = @ + 1,
                                     !.seen = Append(@, PolicyIdOf(policy_data))]
         /\ UNCHANGED eng_ret

\* lines 184-216: the iterator yields the next item of its list object and
\* the body of the loop runs on it
EvalPolicy ==
    /\ eng_ev.pc = "loop"
    /\ eng_ev.idx <= Len(eng_heap[eng_ev.ref])
    /\ AfterPolicy(eng_heap[eng_ev.ref][eng_ev.idx],
                   EngApplyPolicy(eng_ev.st, eng_heap[eng_ev.ref][eng_ev.idx]))
    /\ UNCHANGED <<eng_policies, eng_heap, eng_patterns, eng_disk, eng_ld>>
    /\ UNCHANGED nonEngineVars

\* the call returns what fin holds
ReturnFinished(fin) ==
    EngReturned([done |-> TRUE, event |-> fin.event, matched |-> fin.matched,
                 seen |-> eng_ev.seen, skipped |-> FALSE, raised |-> FALSE,
                 overlap |-> Overlapped, swapped |-> eng_ev.began # eng_ld.gen])

\* lines 184 and 218-224: the iterator is exhausted, the results are attached
EvalReturn ==
    /\ eng_ev.pc = "loop"
    /\ eng_ev.idx > Len(eng_heap[eng_ev.ref])
    /\ ReturnFinished(EngFinish(eng_ev.st, now))
    /\ UNCHANGED <<eng_policies, eng_heap, eng_patterns, eng_disk, eng_ld>>
    /\ UNCHANGED nonEngineVars

EngineNext ==
    \/ EditDisk
    \/ ReloadRebind
    \/ ReloadClearPatterns
    \/ LoadBegin
    \/ LoadOneFile
    \/ SortBegin
    \/ SortEnd
    \/ \E event \in EngineEvents : EvalCall(event)
    \/ EvalIter
    \/ EvalPolicy
    \/ EvalReturn

-----------------------------------------------------------------------------
(* PolicyEvaluator._evaluate_conditions on condition trees                  *)

MaxChildren == 2

\* an event with a string, a number, a list, a null, an empty string and a
\* nested mapping
TypedEvent ==
    PyDict([user_id |-> PyStr(User1), score |-> PyInt(5),
            tags |-> PyList(<<PyStr(User1)>>), note |-> PyNone, name |-> PyStr(<<>>),
            event |-> PyDict([direction |-> PyStr(Outbound), reason |-> PyNone])])

CondEvents == {UserEvent(User1, Outbound), UserEvent(User1, Inbound), TypedEvent}

LeafFields ==
    {<<"user_id">>, <<"score">>, <<"tags">>, <<"note">>, <<"name">>, <<"missing">>,
     <<"event", "direction">>, <<"event", "reason">>, <<"event", "missing">>,
     <<"user_id", "x">>}

LeafOperators == {">", ">=", "<", "<=", "contains", "not contains", "exists"}

LeafValues ==
    {PyStr(<<"u">>), PyStr(User1), PyInt(3), PyList(<<PyStr(User1)>>), PyNone}

\* the leaves _evaluate_condition is called with
LeafPool ==
    {[field |-> f, operator |-> op, value |-> v] :
        f \in LeafFields, op \in LeafOperators, v \in LeafValues}

IsUser2 == [field |-> <<"user_id">>, operator |-> "==", value |-> PyStr(User2)]

CondLeaves == {IsOutbound, IsUser2}

AllNode(children) == [all |-> children]
AnyNode(children) == [any |-> children]
NotNode(child) == "not" :> child

\* the lists of at most MaxChildren nodes of S
ChildLists(S) == UNION {[1..k -> S] : k \in 0..MaxChildren}

\* the nodes whose children are nodes of S
NodesOver(S) ==
    {AllNode(c) : c \in ChildLists(S)} \cup {AnyNode(c) : c \in ChildLists(S)} \cup {NotNode(c) : c \in S}

\* the nodes with no child or with one leaf as their child
SmallNodes ==
    {AllNode(<<>>), AnyNode(<<>>)} \cup {AllNode(<<c>>) : c \in CondLeaves}
    \cup {AnyNode(<<c>>) : c \in CondLeaves} \cup {NotNode(c) : c \in CondLeaves}

\* a leaf, or a node whose children are leaves and small nodes
ConditionTrees == CondLeaves \cup LeafPool \cup NodesOver(CondLeaves \cup SmallNodes)

NotEvaluated == [done |-> FALSE, value |-> FALSE]

CondIdle ==
    /\ cond_event = PyNone
    /\ cond_tree = EmptyDict
    /\ cond_result = NotEvaluated

\* the arguments of a call of _evaluate_conditions
CondInit ==
    /\ cond_event \in CondEvents
    /\ cond_tree \in ConditionTrees
    /\ cond_result = NotEvaluated

\* _evaluate_conditions(event, conditions)
EvaluateTree ==
    /\ ~cond_result.done
    /\ cond_result' = [done |-> TRUE, value |-> EvaluateConditions(cond_event, cond_tree)]
    /\ UNCHANGED <<cond_event, cond_tree>>
    /\ UNCHANGED nonCondVars

CondNext == EvaluateTree

-----------------------------------------------------------------------------
(* Content is classified, the classification is attached to the event, and  *)
(* the event is evaluated against the PAN block policy.                     *)

MaxTokens == 2

CardWord == <<"c", "a", "r", "d">>
VisaBase == <<"4", "5", "3", "2", "0", "1", "5", "1", "1", "2", "8", "3", "0", "3", "6">>
MastercardValid == <<"5", "1", "0", "5", "1", "0", "5", "1", "0", "5", "1", "0", "5", "1", "0", "0">>
MastercardInvalid == <<"5", "1", "0", "5", "1", "0", "5", "1", "0", "5", "1", "0", "5", "1", "0", "1">>
AmexValid == <<"3", "7", "8", "2", "8", "2", "2", "4", "6", "3", "1", "0", "0", "0", "5">>
Visa13Valid == <<"4", "2", "2", "2", "2", "2", "2", "2", "2", "2", "2", "2", "2">>
DiscoverValid == <<"6", "0", "1", "1", "1", "1", "1", "1", "1", "1", "1", "1", "1", "1", "1", "7">>
NineDigits == <<"1", "2", "3", "4", "5", "6", "7", "8", "9">>
TenDigits == <<"5", "5", "5", "1", "2", "3", "4", "5", "6", "7">>
FiveDigits == <<"1", "2", "3", "4", "5">>

ElevenDigits == <<"7", "9", "9", "2", "7", "3", "9", "8", "7", "1", "3">>

\* a separator standing alone
Dash == <<"-">>

\* the 16-digit numbers that begin with VisaBase
VisaWith(d) == Append(VisaBase, d)

TokenPool ==
    {VisaWith(d) : d \in Digits}
    \cup {CardWord, MastercardValid, MastercardInvalid, AmexValid, Visa13Valid,
          DiscoverValid, NineDigits, TenDigits, FiveDigits, ElevenDigits, Dash}

RECURSIVE JoinWords(_)
JoinWords(ws) ==
    IF ws = <<>> THEN <<>>
    ELSE IF Len(ws) = 1 THEN ws[1]
    ELSE ws[1] \o <<" ">> \o JoinWords(Tail(ws))

\* at most MaxTokens words, a space between two
Contents == {JoinWords(ws) : ws \in UNION {[1..k -> TokenPool] : k \in 0..MaxTokens}}

\* "card 4532015112830366"
CardContent == JoinWords(<<CardWord, VisaWith("6")>>)

\* the documents add_fingerprint is called with
KnownDocs == {CardContent, <<>>}

LabelText(label) ==
    CASE label = "PAN" -> <<"P", "A", "N">>
      [] label = "SSN" -> <<"S", "S", "N">>
      [] label = "PHONE" -> <<"P", "H", "O", "N", "E">>
      [] label = "HIGH_ENTROPY" -> <<"H", "I", "G", "H", "_", "E", "N", "T", "R", "O", "P", "Y">>
      [] label = "KNOWN_SENSITIVE_DOC" -> <<"K", "N", "O", "W", "N", "_", "S", "E", "N", "S", "I", "T", "I", "V", "E", "_", "D", "O", "C">>
      [] label = "EMAIL" -> <<"E", "M", "A", "I", "L">>
      [] label = "API_KEY" -> <<"A", "P", "I", "_", "K", "E", "Y">>
      [] label = "SECRET" -> <<"S", "E", "C", "R", "E", "T">>
      [] label = "IP_ADDRESS" -> <<"I", "P", "_", "A", "D", "D", "R", "E", "S", "S">>

\* the event with the result of classify under 'classification'; of the
\* result the policies read score and labels
ClassifiedEvent(content, c) ==
    PyDict([content |-> PyStr(content),
            classification |-> PyDict([score |-> PyInt(c.score),
                                       labels |-> PyList([i \in 1..Len(c.labels) |->
                                                            PyStr(LabelText(c.labels[i]))])])])

LabelsContainPan ==
    [field |-> <<"classification", "labels">>, operator |-> "contains",
     value |-> PyStr(LabelText("PAN"))]

BlockThenAlert == <<[type |-> "block"], [type |-> "alert"]>>

\* the PAN block policy as a PolicyEngine policy file
PanBlockFile == [kind |-> "doc", data |-> [policy |->
    [id |-> "pan-block", name |-> <<"P", "A", "N", " ", "b", "l", "o", "c", "k">>, enabled |-> TRUE,
     rules |-> <<[id |-> "r1", name |-> "r1", conditions |-> <<LabelsContainPan>>,
                  actions |-> BlockThenAlert]>>]]]

\* the PAN block policy as a PolicyEvaluator policy
PanBlockPolicy ==
    [id |-> "pan-block", name |-> "pan-block", enabled |-> TRUE,
     conditions |-> LabelsContainPan, actions |-> BlockThenAlert]

NotClassified == [done |-> FALSE, score |-> 0, labels |-> <<>>, methods |-> {},
                  confidence |-> [num |-> 0, den |-> 1], high_entropy |-> FALSE]

NotProcessed == [done |-> FALSE, event |-> PyNone, matches |-> <<>>]

\* no content is being classified
ClassIdle ==
    /\ cl_fingerprints = {}
    /\ cl_content = <<>>
    /\ cl_class = NotClassified
    /\ cl_eval = NotProcessed

\* DLPClassifier.__init__, and the content that is going to be classified
ClassInit ==
    /\ cl_fingerprints = {}
    /\ cl_content \in Contents
    /\ cl_class = NotClassified
    /\ cl_eval = NotProcessed

\* add_fingerprint(content)
AddFingerprint(content) ==
    /\ ~cl_class.done
    /\ content \notin cl_fingerprints
    /\ cl_fingerprints' = cl_fingerprints \cup {content}
    /\ UNCHANGED <<cl_content, cl_class, cl_eval>>
    /\ UNCHANGED nonClassVars

\* classify returned c
Classified(c) ==
    cl_class' = [done |-> TRUE, score |-> c.score, labels |-> c.labels, methods |-> c.methods,
                 confidence |-> c.confidence, high_entropy |-> c.high_entropy]

\* classify(content) once the detectors have filled the lists l
ClassifyWith(l, high) ==
    \E order \in Orders(SetOf(l.labels)) : Classified(Classification(l, order, high))

\* classify(cl_content)
Classify ==
    /\ ~cl_class.done
    /\ \E high \in EntropyAbove(cl_content) :
            ClassifyWith(Detections(cl_content, cl_fingerprints, high), high)
    /\ UNCHANGED <<cl_fingerprints, cl_content, cl_eval>>
    /\ UNCHANGED nonClassVars

\* the engines returned: eng is what PolicyEngine.evaluate_event gave, r
\* what PolicyEvaluator.evaluate_event gave
Processed(eng, r) ==
    cl_eval' = [done |-> TRUE, event |-> eng.event, matches |-> r.matches]

\* the classified event goes through both engines, each holding the PAN
\* block policy alone
EvaluateClassified ==
    /\ cl_class.done
    /\ ~cl_eval.done
    /\ Processed(EngEvaluateEvent(ReloadPolicies(<<PanBlockFile>>).policies,
                                  ClassifiedEvent(cl_content, cl_class), now),
                 EvaluateEventResult(LoadPolicyResult(<<>>, PanBlockPolicy), EmptyDict, now,
                                     ClassifiedEvent(cl_content, cl_class)))
    /\ UNCHANGED <<cl_fingerprints, cl_content, cl_class>>
    /\ UNCHANGED nonClassVars

ClassNext ==
    \/ \E content \in KnownDocs : AddFingerprint(content)
    \/ Classify
    \/ EvaluateClassified

vars == <<evaluatorVars, raceVars, engineVars, condVars, classVars>>

Init == EvaluatorInit /\ RaceIdle /\ EngineIdle /\ CondIdle /\ ClassIdle

Next == EvaluatorNext

Spec == Init /\ [][Next]_vars

InitRace == RaceInit /\ EvaluatorInit /\ EngineIdle /\ CondIdle /\ ClassIdle

SpecRace == InitRace /\ [][RaceNext]_vars

InitEngine == EngineInit /\ EvaluatorInit /\ RaceIdle /\ CondIdle /\ ClassIdle

SpecEngine == InitEngine /\ [][EngineNext]_vars

InitCond == CondInit /\ EvaluatorInit /\ RaceIdle /\ EngineIdle /\ ClassIdle

SpecCond == InitCond /\ [][CondNext]_vars

InitClassify == ClassInit /\ EvaluatorInit /\ RaceIdle /\ EngineIdle /\ CondIdle

SpecClassify == InitClassify /\ [][ClassNext]_vars

InitLoad == EvaluatorInit /\ RaceIdle /\ EngineIdle /\ CondIdle /\ ClassIdle

SpecLoad == InitLoad /\ [][LoadNext]_vars

-----------------------------------------------------------------------------
(* Properties of the sliding window                                         *)

Matched(h, id) == \E i \in 1..Len(h.matches) : h.matches[i].policy_id = id

StaticOK(h) == h.event.v.event.v.direction.v = Outbound

\* the calls whose event satisfies the static conditions of the pool's policies
Passing == SelectSeq(hist, StaticOK)

FourMinutes == 4 * Units("m")
SixMinutes == 6 * Units("m")

FirstTwoMiss(p, id) ==
    /\ Len(p) >= 1 => ~Matched(p[1], id)
    /\ Len(p) >= 2 => ~Matched(p[2], id)

ThirdDecidedByAge(p, id) ==
    Len(p) >= 3 =>
        /\ p[3].t - p[1].t <= FourMinutes => Matched(p[3], id)
        /\ p[3].t - p[1].t >= SixMinutes => ~Matched(p[3], id)

\* C1: with window 5m and threshold count 3, the first two events that pass
\* the static conditions do not match; the third matches when it is evaluated
\* within 4 minutes of the first, and does not match when it is evaluated 6
\* minutes or more after the first (the first has been pruned).
C1_SlidingWindow ==
    "pol-count" \in LoadedIds =>
        FirstTwoMiss(Passing, "pol-count") /\ ThirdDecidedByAge(Passing, "pol-count")

ThirdAt(p, id, age) == Len(p) >= 3 /\ p[3].t - p[1].t = age

C1_Witness ==
    /\ "pol-count" \in LoadedIds
    /\ ThirdAt(Passing, "pol-count", FourMinutes)
    /\ Matched(Passing[3], "pol-count")

WindowSeconds == 5 * Units("m")

HasUser(h) == "user_id" \in DOMAIN h.event.v

\* the calls of p inside the window that ends at the latest call of p
Recent(p) == {i \in 1..Len(p) : p[i].t > p[Len(p)].t - WindowSeconds}

OnBoundary(p) == {i \in 1..Len(p) : p[i].t = p[Len(p)].t - WindowSeconds}

RecentUsers(p) == {p[i].event.v.user_id.v : i \in Recent(p)}

DistinctDecides(p, id) ==
    (OnBoundary(p) = {} /\ \A i \in Recent(p) : HasUser(p[i])) =>
        (Matched(p[Len(p)], id) <=> Cardinality(RecentUsers(p)) >= 3)

\* C2: with distinct_field user_id and threshold count 3, as long as the
\* in-window events (each carrying a user_id) come from at most 2 distinct
\* users the event does not match, however many events there are; an event
\* that brings the in-window events to 3 distinct users matches.
C2_DistinctThreshold ==
    ("pol-distinct" \in LoadedIds /\ hist # <<>> /\ StaticOK(hist[Len(hist)])) =>
        DistinctDecides(Passing, "pol-distinct")

TwoUsersThenThird(p, id) ==
    /\ Len(p) = 4
    /\ \A i \in 1..4 : HasUser(p[i])
    /\ Recent(p) = 1..4
    /\ Cardinality({p[i].event.v.user_id.v : i \in 1..3}) = 2
    /\ ~Matched(p[3], id)
    /\ Matched(p[4], id)

C2_Witness ==
    "pol-distinct" \in LoadedIds /\ TwoUsersThenThird(Passing, "pol-distinct")

-----------------------------------------------------------------------------
(* Atomicity of the stateful check                                          *)

\* what the two calls return and leave behind when the first-th thread runs
\* its whole call before the other one starts
SerialAfter(first, second) ==
    LET a == EvaluateStateful(rc_init, now, ThreadEvent(first), PolRace)
        b == EvaluateStateful(a.tracker, now, ThreadEvent(second), PolRace)
    IN  [result |-> [th \in Threads |-> IF th = first THEN a.result ELSE b.result],
         window |-> b.tracker[PolRace.id]]

RaceOutcome ==
    [result |-> [th \in Threads |-> rc_loc[th].result],
     window |-> rc_heap[rc_tracker[PolRace.id]]]

BothDone == \A th \in Threads : rc_pc[th] = "done"

\* C3: the stateful check is atomic per policy id: whatever the interleaving
\* of two concurrent calls for the same policy, the two returned booleans and
\* the window list left behind are those of one of the two serial orders.
C3_CheckIsAtomic ==
    BothDone => RaceOutcome \in {SerialAfter(1, 2), SerialAfter(2, 1)}

\* a completed pair of calls that did serialise
C3_SerialRun == BothDone /\ RaceOutcome = SerialAfter(1, 2)

-----------------------------------------------------------------------------
(* PolicyEngine under reload                                                *)

DocsOf(files) == {files[i].data : i \in {j \in 1..Len(files) : files[j].kind = "doc"}}

IdsA == {PolicyIdOf(d) : d \in DocsOf(DiskA)}
IdsB == {PolicyIdOf(d) : d \in DocsOf(DiskB)}

MatchedIds(m) == {m[i].policy_id : i \in 1..Len(m)}

\* the ids under policies_matched of a returned event
AttachedIds(event) ==
    IF event.t = "dict" /\ "policies_matched" \in DOMAIN event.v
    THEN {event.v.policies_matched.v[i].v.policy_id :
            i \in 1..Len(event.v.policies_matched.v)}
    ELSE {}

OneSet(ids) == ids \subseteq IdsA \/ ids \subseteq IdsB

\* C4: a reload replaces the policies of set A by those of set B while
\* evaluate_event calls are in progress; no call collects, returns or
\* attaches as policies_matched a match list with policies of both sets.
C4_ReloadAtomicity ==
    /\ OneSet(MatchedIds(eng_ev.st.matched))
    /\ eng_ret.done => /\ OneSet(MatchedIds(eng_ret.matched))
                       /\ OneSet(AttachedIds(eng_ret.event))

\* a call during which self.policies was replaced has returned its matches
C4_Witness ==
    /\ eng_ret.done
    /\ eng_ret.swapped
    /\ Len(eng_ret.matched) >= 2
    /\ AttachedIds(eng_ret.event) = MatchedIds(eng_ret.matched)

\* the two lists a finished load leaves
CompleteLists == {IdsOf(ReloadPolicies(DiskA).policies), IdsOf(ReloadPolicies(DiskB).policies)}

\* C5: an evaluate_event call that runs while policies are loaded or
\* reloaded goes through a complete loaded and sorted list, the old one or
\* the new one; it never finds the list empty, half filled or unsorted.
C5_NoPartialSet ==
    eng_ret.done => ~eng_ret.skipped /\ eng_ret.seen \in CompleteLists

\* a call that ran during a reload and went through a complete list
C5_CompleteDuringReload ==
    /\ eng_ret.done
    /\ eng_ret.overlap
    /\ eng_ret.seen \in CompleteLists

PriorityOfId(id) ==
    EnginePriority(CHOOSE d \in DocsOf(DiskA) \cup DocsOf(DiskB) : PolicyIdOf(d) = id)

Descending(ps) == \A i, j \in 1..Len(ps) : i < j => ps[i] >= ps[j]

PrioritiesOf(pols) == [i \in 1..Len(pols) |-> EnginePriority(pols[i])]

MatchPriorities(m) == [i \in 1..Len(m) |-> PriorityOfId(m[i].policy_id)]

\* C6: once a load or reload is over, the loaded list is in descending
\* order of priority, and a call that no load overlaps reports its matches
\* in that order: loaded with priorities 10, 100, 50 and all matching, the
\* policies are reported as 100, 50, 10.
C6_PriorityDescending ==
    /\ (eng_ld.started /\ eng_ld.pc = "idle")
          => Descending(PrioritiesOf(eng_heap[eng_policies]))
    /\ (eng_ret.done /\ ~eng_ret.overlap) => Descending(MatchPriorities(eng_ret.matched))

\* the three policies of priorities 10, 100, 50 all matched one event
C6_AllThreeMatched ==
    /\ eng_ret.done
    /\ ~eng_ret.overlap
    /\ MatchedIds(eng_ret.matched) = IdsA

-----------------------------------------------------------------------------
(* Condition trees                                                          *)

\* a tree evaluated node by node, every child as the node it is
RECURSIVE TreeValue(_, _)
TreeValue(event, node) ==
    IF "all" \in DOMAIN node
    THEN \A i \in 1..Len(node.all) : TreeValue(event, node.all[i])
    ELSE IF "any" \in DOMAIN node
    THEN \E i \in 1..Len(node.any) : TreeValue(event, node.any[i])
    ELSE IF "not" \in DOMAIN node
    THEN ~TreeValue(event, node["not"])
    ELSE EvaluateCondition(event, node)

\* C8: a condition tree is evaluated recursively at every depth: All is
\* true iff every child node is, Any iff some child node is, Not iff its
\* child is not, the children being All, Any or Not nodes themselves; so
\* All([Any([false leaf])]) and All([Not(true leaf)]) are false.
C8_RecursiveEvaluation ==
    cond_result.done => cond_result.value = TreeValue(cond_event, cond_tree)

\* a tree two levels deep has been evaluated as its nodes say
C8_NestedAgrees ==
    /\ cond_result.done
    /\ cond_tree = NotNode(NotNode(IsOutbound))
    /\ cond_result.value = TreeValue(cond_event, cond_tree)

\* C9: for every event the empty conjunction All([]) evaluates to true and
\* the empty disjunction Any([]) to false.
C9_EmptyAllAny ==
    /\ \A e \in CondEvents : EvaluateConditions(e, AllNode(<<>>)) /\ ~EvaluateConditions(e, AnyNode(<<>>))
    /\ (cond_result.done /\ cond_tree = AllNode(<<>>)) => cond_result.value
    /\ (cond_result.done /\ cond_tree = AnyNode(<<>>)) => ~cond_result.value

\* the empty conjunction has been evaluated
C9_Witness ==
    /\ cond_result.done
    /\ cond_tree = AllNode(<<>>)
    /\ cond_result.value

-----------------------------------------------------------------------------
(* Classification and policy evaluation end to end                          *)

\* the entries under policies_matched of the returned event
AttachedMatches(event) ==
    IF "policies_matched" \in DOMAIN event.v THEN event.v.policies_matched.v ELSE <<>>

\* C7: the event with content "card 4532015112830366" is classified and
\* then evaluated against the one loaded, enabled policy with the condition
\* classification.labels contains PAN and the actions block, alert: there is
\* exactly one policy match, its actions are block, alert in that order, and
\* the returned event has blocked = true.
C7_EndToEnd ==
    (cl_eval.done /\ cl_content = CardContent) =>
        /\ Len(AttachedMatches(cl_eval.event)) = 1
        /\ AttachedMatches(cl_eval.event)[1].v.actions = BlockThenAlert
        /\ "blocked" \in DOMAIN cl_eval.event.v
        /\ cl_eval.event.v.blocked = PyBool(TRUE)
        /\ Len(cl_eval.matches) = 1
        /\ cl_eval.matches[1].actions = BlockThenAlert

\* the card content has gone through classify and both engines
C7_Witness ==
    /\ cl_eval.done
    /\ cl_content = CardContent
    /\ \E i \in 1..Len(cl_class.labels) : cl_class.labels[i] = "PAN"
    /\ "blocked" \in DOMAIN cl_eval.event.v

PanPatterns == {RegexPatterns[k].pattern : k \in {j \in 1..Len(RegexPatterns) :
                                                   RegexPatterns[j].label = "PAN"}}

\* some all-digit match of some PAN pattern in the content fails Luhn
HasFailingPan(content) ==
    \E i \in 1..Len(Words(content)) :
        /\ \E pattern \in PanPatterns : WordMatches(pattern, Words(content)[i])
        /\ IsDigitString(Words(content)[i])
        /\ ~ValidateLuhn(Words(content)[i])

HasLabel(label) == \E i \in 1..Len(cl_class.labels) : cl_class.labels[i] = label

\* C10: when any all-digit match of any PAN pattern in the content fails the
\* Luhn checksum, the result of classify does not carry the PAN label,
\* whichever pattern gave the failing match and whatever valid PAN matches
\* the content also holds.
C10_LuhnRejection ==
    (cl_class.done /\ HasFailingPan(cl_content)) => ~HasLabel("PAN")

\* content that is one Luhn-failing digit string has been classified
\* without PAN
C10_SingleFailing ==
    /\ cl_class.done
    /\ cl_content = VisaWith("7")
    /\ ~HasLabel("PAN")

\* the total of the digits, every second one from the right doubled and
\* digit-summed, is a multiple of 10
PassesLuhn(ds) == LuhnSum(ds, 1) % 10 = 0

MatchesPanPattern(w) == \E pattern \in PanPatterns : WordMatches(pattern, w)

\* C11 as stated: for every digit string that passes the Luhn checksum, the
\* content that is that digit string is classified with the PAN label.
C11_LuhnAcceptance ==
    (cl_class.done /\ IsDigitString(cl_content) /\ PassesLuhn(cl_content)) => HasLabel("PAN")

\* C11 amended: for every digit string that is a match of one of the PAN
\* patterns and passes the Luhn checksum, the content that is that digit
\* string is classified with the PAN label.
C11_PatternLuhnAcceptance ==
    (cl_class.done /\ IsDigitString(cl_content) /\ MatchesPanPattern(cl_content)
        /\ PassesLuhn(cl_content)) => HasLabel("PAN")

\* 4532015112830366 alone has been classified as PAN
C11_Witness ==
    /\ cl_class.done
    /\ cl_content = VisaWith("6")
    /\ PassesLuhn(cl_content)
    /\ HasLabel("PAN")

-----------------------------------------------------------------------------
(* PolicyEngine: which policies a call goes through                         *)

DocWithId(id) == CHOOSE d \in DocsOf(DiskA) \cup DocsOf(DiskB) : PolicyIdOf(d) = id

StopsOnMatch(id) == Get(DocWithId(id).policy, "stop_on_match", FALSE)

\* C12: when a policy that declares stop_on_match matches, evaluate_event
\* stops there: no policy ranked after it is evaluated or reported.
C12_StopOnMatch ==
    (eng_ret.done /\ ~eng_ret.overlap) =>
        \A i \in 1..Len(eng_ret.matched) :
            StopsOnMatch(eng_ret.matched[i].policy_id) => i = Len(eng_ret.matched)

\* a policy with stop_on_match has matched in a call no load overlaps
C12_StopPolicyMatched ==
    /\ eng_ret.done
    /\ ~eng_ret.overlap
    /\ \E i \in 1..Len(eng_ret.matched) : StopsOnMatch(eng_ret.matched[i].policy_id)

-----------------------------------------------------------------------------
(* Disabled policies                                                        *)

\* policy a50 (rule on every typed event, action block) with enabled: false
DisabledFile ==
    [kind |-> "doc", data |-> [policy |-> Store(FileA50.data.policy, "enabled", FALSE)]]

DiskWithDisabled == <<FileA10, DisabledFile, FileA100>>

\* PolicyEngine: the disabled policy is in no match list and its block
\* action marks no event
DisabledEngineInert ==
    \A event \in EngineEvents :
        /\ "a50" \in MatchedIds(EngEvaluateEvent(ReloadPolicies(DiskA).policies, event, 0).matched)
        /\ "a50" \notin MatchedIds(EngEvaluateEvent(ReloadPolicies(DiskWithDisabled).policies,
                                                    event, 0).matched)
        /\ "blocked" \notin DOMAIN EngEvaluateEvent(ReloadPolicies(DiskWithDisabled).policies,
                                                    event, 0).event.v

\* C13: a policy with enabled: false is never evaluated: it is in no match
\* list, none of its actions is applied, and it has no tracker window that
\* it could append to or prune.
C13_DisabledNeverEvaluated ==
    /\ \A i \in 1..Len(hist) : ~Matched(hist[i], PolDisabled.id)
    /\ PolDisabled.id \notin DOMAIN state_tracker
    /\ DisabledEngineInert

\* the disabled policy is loaded and an event its conditions hold for has
\* been evaluated and matched by another policy
C13_Witness ==
    /\ PolDisabled.id \in LoadedIds
    /\ Len(hist) >= 2
    /\ Matched(hist[1], PolPlain.id)
    /\ EvaluateConditions(hist[1].event, PolDisabled.conditions)

-----------------------------------------------------------------------------
(* PolicyEngine: what a load keeps                                          *)

\* the operators _evaluate_condition knows (lines 278-355)
EngineOperators ==
    {"equals", "not_equals", "contains", "regex", "greater_than", "less_than",
     "greater_equal", "less_equal", "in", "exists", "not_exists", "luhn_check"}

ConditionWellFormed(c) ==
    /\ Get(c, "operator", "") \in EngineOperators
    /\ Get(c, "operator", "") = "regex" =>
          (Get(c, "value", PyNone).t = "str" /\ ValidPattern(c.value.v))

\* a policy file with every required field, known operators and patterns
\* that compile
WellFormed(file) ==
    /\ file.kind = "doc"
    /\ ValidatePolicy(file.data)
    /\ \A i \in 1..Len(file.data.policy.rules) :
          \A j \in 1..Len(file.data.policy.rules[i].conditions) :
              ConditionWellFormed(file.data.policy.rules[i].conditions[j])

WellFormedIds(files) ==
    {PolicyIdOf(files[i].data) : i \in {j \in 1..Len(files) : WellFormed(files[j])}}

LoadOver == eng_ld.started /\ eng_ld.pc = "idle"

\* C14: load_policies does not abort, and when it is over the loaded list
\* holds every valid policy of the directory and no malformed one (a
\* required field missing, an operator that does not exist, a pattern that
\* does not compile).
C14_PartialFailureLoading ==
    LoadOver => SetOf(IdsOf(eng_heap[eng_policies])) = WellFormedIds(eng_ld.files)

\* a load of a directory with malformed files is over: the valid policies
\* are loaded and the one without a name is not
C14_ValidLoaded ==
    /\ LoadOver
    /\ eng_ld.files = DiskB
    /\ {"b20", "b5"} \subseteq SetOf(IdsOf(eng_heap[eng_policies]))
    /\ "b-noname" \notin SetOf(IdsOf(eng_heap[eng_policies]))

-----------------------------------------------------------------------------
(* PolicyEvaluator: a call returns                                          *)

\* C15: evaluate_event never raises for a per-event or per-policy issue; a
\* stateful clause that cannot be used counts as no match and the call
\* returns.
C15_NeverRaises ==
    \A i \in 1..Len(hist) : ~hist[i].raised

\* an event that satisfies the conditions of the policy whose window is not
\* a string has been evaluated
C15_BadClauseEvaluated ==
    \E i \in 1..Len(hist) :
        /\ EvaluateConditions(hist[i].event, PolBadWindow.conditions)
        /\ PolBadWindow.id \in LoadedIds

-----------------------------------------------------------------------------
(* PolicyEngine: a failing action                                           *)

\* C16: when an action of a matched rule fails, evaluate_event does not let
\* the exception out: the call returns a result.
C16_ActionFailureIsolation ==
    eng_ret.done => ~eng_ret.raised

\* a call has reached the policy whose first action entry is a bare string,
\* with a rule of that policy matching the event
C16_BareActionMatched ==
    /\ eng_ret.done
    /\ "b-bare" \in SetOf(eng_ret.seen)
    /\ "b-bare" \in MatchedIds(eng_ret.matched)

-----------------------------------------------------------------------------
(* PolicyEngine.reload_policies: what is loaded afterwards                  *)

\* the files of a directory that hold a policy _validate_policy accepts
Accepted(files) ==
    {j \in 1..Len(files) : files[j].kind = "doc" /\ ValidatePolicy(files[j].data)}

Occurrences(list, policy_data) ==
    Cardinality({i \in 1..Len(list) : list[i] = policy_data})

ReloadOver == LoadOver /\ eng_ld.gen >= 1

\* C17: when reload_policies is over, whatever was loaded before, the list
\* holds exactly the policies of the new directory that pass validation,
\* each once, so its length is their number, and compiled_patterns holds the
\* patterns of these policies and none of the previous set.
C17_ReloadReplaces ==
    ReloadOver =>
        /\ Len(eng_heap[eng_policies]) = Cardinality(Accepted(eng_ld.files))
        /\ \A j \in Accepted(eng_ld.files) :
              Occurrences(eng_heap[eng_policies], eng_ld.files[j].data) = 1
        /\ eng_patterns = UNION {PatternKeys(eng_ld.files[j].data) :
                                   j \in Accepted(eng_ld.files)}

\* a reload of the edited directory is over, the set loaded before it having
\* been the one of the first directory, which has a compiled pattern
C17_Witness ==
    /\ ReloadOver
    /\ eng_ld.files = DiskB
    /\ PatternKeys(FileA10.data) # {}
    /\ eng_patterns # {}
    /\ Len(eng_heap[eng_policies]) = 5

-----------------------------------------------------------------------------
(* PolicyEvaluator._evaluate_condition on single leaves                     *)

IsLeaf(node) == "field" \in DOMAIN node

\* a leaf with one of the operators ops has been evaluated
LeafDone(ops) ==
    cond_result.done /\ IsLeaf(cond_tree) /\ cond_tree.operator \in ops

\* what the field of the leaf resolves to in the event
Resolved == GetNestedValue(cond_event, cond_tree.field)

IsNumber(x) == x.t = "int"

Comparisons == {">", ">=", "<", "<="}

\* C18: a comparison leaf (>, >=, <, <=) is false whenever the resolved value
\* or the literal is not a number; a string compared with a string by > is
\* false.
C18_NumericComparison ==
    (LeafDone(Comparisons) /\ (~IsNumber(Resolved) \/ ~IsNumber(cond_tree.value)))
        => ~cond_result.value

\* a number has been compared with a string, and the leaf is false
C18_MixedTypesFalse ==
    /\ LeafDone({">"})
    /\ IsNumber(Resolved)
    /\ cond_tree.value.t = "str"
    /\ ~cond_result.value

\* the test a contains leaf makes on a string or a list
Inside(ev, v) ==
    IF ev.t = "str" THEN IsSubstring(v.v, ev.v) ELSE InList(v, ev.v)

\* the resolved value is a string and so is the literal, or it is a list
Testable(ev, v) == (ev.t = "str" /\ v.t = "str") \/ ev.t = "list"

RECURSIVE PresentOnPath(_, _)
PresentOnPath(data, keys) ==
    \/ keys = <<>>
    \/ /\ data.t = "dict"
       /\ Head(keys) \in DOMAIN data.v
       /\ PresentOnPath(data.v[Head(keys)], Tail(keys))

\* C20: an exists leaf is true iff every key of the dot-path is present in
\* the event, a final key holding null or the empty string included.
C20_ExistsDistinguishesNull ==
    LeafDone({"exists"}) =>
        (cond_result.value <=> PresentOnPath(cond_event, cond_tree.field))

\* an exists leaf on a field that holds the empty string is true
C20_EmptyStringExists ==
    /\ LeafDone({"exists"})
    /\ PresentOnPath(cond_event, cond_tree.field)
    /\ Resolved = PyStr(<<>>)
    /\ cond_result.value

-----------------------------------------------------------------------------
(* PolicyEvaluator: the window of a stateful clause                         *)

\* a duration as the policy format writes it: digits followed by one unit
WellFormedDuration(w) ==
    /\ w.t = "str"
    /\ Len(w.v) >= 2
    /\ DigitRun(w.v) = Len(w.v) - 1
    /\ w.v[Len(w.v)] \in {"s", "m", "h", "d"}

Loaded(id) == CHOOSE i \in 1..Len(policies) : policies[i].id = id

\* the enabled stateful policies whose static conditions hold for the event
\* of the i-th call
StatefulFor(i) ==
    {k \in 1..Len(policies) :
        /\ Get(policies[k], "enabled", TRUE)
        /\ "stateful" \in DOMAIN policies[k]
        /\ EvaluateConditions(hist[i].event, Get(policies[k], "conditions", EmptyDict))}

\* the calls up to the i-th whose event passes the static conditions of the
\* k-th policy and lies less than w seconds before the i-th call
CountedWithin(k, i, w) ==
    {j \in 1..i :
        /\ EvaluateConditions(hist[j].event, Get(policies[k], "conditions", EmptyDict))
        /\ hist[j].t > hist[i].t - w}

ThresholdCount(k) == Get(Get(policies[k].stateful, "threshold", EmptyDict), "count", 1)

\* C21: a stateful.window that is not a well-formed duration makes the check
\* use the default window of 300 seconds, and the evaluation does not fail.
C21_WindowFallback ==
    \A i \in 1..Len(hist) : \A k \in StatefulFor(i) :
        ~WellFormedDuration(policies[k].stateful.window) =>
            /\ ~hist[i].raised
            /\ Matched(hist[i], policies[k].id) <=>
                  Cardinality(CountedWithin(k, i, DefaultWindowSeconds)) >= ThresholdCount(k)

\* the policy with window "5x" matches on a second passing event that comes
\* four minutes after the first
C21_FallbackUsed ==
    /\ PolFallback.id \in LoadedIds
    /\ \E i \in 1..Len(hist) :
          /\ Matched(hist[i], PolFallback.id)
          /\ \A j \in CountedWithin(Loaded(PolFallback.id), i, DefaultWindowSeconds) :
                j = i \/ hist[i].t - hist[j].t = 2 * TickSeconds

-----------------------------------------------------------------------------
(* DLPClassifier.classify on the empty string                               *)

\* C22: whatever add_fingerprint calls came before, classify("") returns
\* score 0.0 and no label, and its entropy is 0.0.
C22_EmptyContent ==
    (cl_class.done /\ cl_content = <<>>) =>
        /\ cl_class.score = 0
        /\ cl_class.labels = <<>>
        /\ ~cl_class.high_entropy

\* classify("") has returned zero and no label in a classifier that holds the
\* fingerprint of a document
C22_EmptyNotFingerprinted ==
    /\ cl_class.done
    /\ cl_content = <<>>
    /\ cl_fingerprints = {CardContent}
    /\ cl_class.score = 0
    /\ cl_class.labels = <<>>

-----------------------------------------------------------------------------
(* PolicyEvaluator: which entries a check keeps                             *)

LastCall == hist[Len(hist)]

Timestamps(items) == [i \in 1..Len(items) |-> items[i].timestamp]

\* the times of the passing calls that lie at most w seconds before the last
\* call, in the order of the calls
TimesFrom(p, cutoff) ==
    LET kept == SelectSeq(p, LAMBDA h : h.t >= cutoff)
    IN  [i \in 1..Len(kept) |-> kept[i].t]

EdgeWindow == ParseDuration(PolEdge.stateful.window.v)

EdgeChecked ==
    PolEdge.id \in LoadedIds /\ hist # <<>> /\ StaticOK(LastCall)

\* C23: right after a check of policy p at time now with window w, the window
\* list of p holds exactly the entries with timestamp >= now - w, the current
\* one among them: an entry recorded exactly w before now is kept and
\* counted, older ones are not.
C23_InclusivePruning ==
    EdgeChecked =>
        /\ Timestamps(state_tracker[PolEdge.id]) = TimesFrom(Passing, LastCall.t - EdgeWindow)
        /\ Matched(LastCall, PolEdge.id) <=>
              Len(TimesFrom(Passing, LastCall.t - EdgeWindow)) >= PolEdge.stateful.threshold.count

\* a check has dropped an entry older than the window: two passing calls
\* four minutes apart, and the list holds the later one only
C23_OlderDropped ==
    /\ EdgeChecked
    /\ Len(Passing) = 2
    /\ Passing[2].t - Passing[1].t = 2 * EdgeWindow
    /\ Timestamps(state_tracker[PolEdge.id]) = <<LastCall.t>>

-----------------------------------------------------------------------------
(* PolicyEvaluator: the static conditions come before the tracker           *)

StaticHolds(event, policy) ==
    EvaluateConditions(event, Get(policy, "conditions", EmptyDict))

\* the window list of the policy id is not what it was before the step
WindowChanged(id) ==
    /\ id \in DOMAIN state_tracker'
    /\ id \notin DOMAIN state_tracker \/ state_tracker'[id] # state_tracker[id]

\* a window list changes only in a call whose event passes the static
\* conditions of its policy, and the event is then its newest entry
GateStep ==
    \A k \in 1..Len(policies) :
        WindowChanged(policies[k].id) =>
            /\ Len(hist') = Len(hist) + 1
            /\ StaticHolds(hist'[Len(hist')].event, policies[k])
            /\ state_tracker'[policies[k].id] # <<>> =>
                  state_tracker'[policies[k].id][Len(state_tracker'[policies[k].id])].event
                      = hist'[Len(hist')].event

\* what the last call counted for the k-th policy
CountedBy(k) ==
    CountInWindow(state_tracker[policies[k].id],
                  Get(Get(policies[k].stateful, "threshold", EmptyDict), "distinct_field", <<>>))

\* a policy with a stateful clause is among the matches of the last call
\* only if its static conditions hold for the event and the tracker check
\* is true
MatchedNeedsBoth ==
    hist # <<>> =>
        \A k \in 1..Len(policies) :
            ("stateful" \in DOMAIN policies[k] /\ Matched(LastCall, policies[k].id)) =>
                /\ StaticHolds(LastCall.event, policies[k])
                /\ policies[k].id \in DOMAIN state_tracker
                /\ CountedBy(k) >= ThresholdCount(k)

\* C24: an event enters the window of a policy only when the static
\* conditions of that policy hold for it, so an event that fails them changes
\* no window and counts toward no threshold; and a policy with a stateful
\* clause is matched only when the static conditions and the tracker check
\* are both true.
C24_StaticGate == [][GateStep]_vars /\ []MatchedNeedsBoth

\* after passing calls one of which matched the stateful policy pol-edge, a
\* call on an event that fails the static conditions has left the window of
\* pol-count with the passing events only
C24_Witness ==
    /\ PolCount.id \in DOMAIN state_tracker
    /\ Len(hist) >= 3
    /\ ~StaticHolds(LastCall.event, PolCount)
    /\ \E i \in 1..Len(hist) : Matched(hist[i], PolEdge.id)
    /\ Len(state_tracker[PolCount.id]) = Len(Passing)

-----------------------------------------------------------------------------
(* PolicyEngine.evaluate_event: what it does to the event                   *)

\* the top-level keys the results are attached under
AttachedKeys == {"classification", "policy", "policies_matched", "blocked", "quarantined"}

\* every field of the event on entry has the same value on return
FieldsKept(input, output) ==
    /\ output.t = "dict"
    /\ \A k \in DOMAIN input.v : k \in DOMAIN output.v /\ output.v[k] = input.v[k]

NewKeys(input, output) == (DOMAIN output.v) \ (DOMAIN input.v)

\* C25: evaluation changes the event only by attaching the top-level keys
\* classification, policy, policies_matched, blocked and quarantined: every
\* field it had on entry keeps its value and no other key is added.
C25_EventFrame ==
    (eng_ret.done /\ ~eng_ret.raised) =>
        \E input \in EngineEvents :
            /\ FieldsKept(input, eng_ret.event)
            /\ NewKeys(input, eng_ret.event) \subseteq AttachedKeys

\* a call with matches has returned the event with the fields it came with
C25_FieldsKept ==
    /\ eng_ret.done
    /\ ~eng_ret.raised
    /\ eng_ret.matched # <<>>
    /\ \E input \in EngineEvents :
          /\ FieldsKept(input, eng_ret.event)
          /\ "policies_matched" \in NewKeys(input, eng_ret.event)

-----------------------------------------------------------------------------
(* Policies and rules without conditions                                    *)

NoConditions(policy) ==
    "conditions" \notin DOMAIN policy \/ policy.conditions = EmptyDict

\* what PolicyEngine._evaluate_rule returns for a rule with an empty
\* condition list, on every event of the engine runs
EmptyRule == [id |-> "r0", name |-> "r0", conditions |-> <<>>, actions |-> <<[type |-> "alert"]>>]

EngineEmptyRuleNeverMatches ==
    \A event \in EngineEvents : EngEvaluateRule(event, EmptyRule) = "false"

\* C26: a policy or rule with missing or empty conditions matches no event,
\* in PolicyEngine (a rule with an empty condition list) and in
\* PolicyEvaluator (a policy with no conditions key or an empty mapping).
C26_NoConditionsNeverMatch ==
    /\ EngineEmptyRuleNeverMatches
    /\ hist # <<>> =>
          \A k \in 1..Len(policies) :
              NoConditions(policies[k]) => ~Matched(LastCall, policies[k].id)

\* an event has been evaluated with the policy without conditions loaded
C26_BareEvaluated ==
    /\ PolNoConditions.id \in LoadedIds
    /\ hist # <<>>
    /\ EngineEmptyRuleNeverMatches

-----------------------------------------------------------------------------
(* PolicyEvaluator: what a distinct_field threshold counts                  *)

DistinctLoaded == \E k \in 1..Len(policies) : policies[k] = PolDistinct

DistinctWindow == state_tracker[PolDistinct.id]

\* the entries of the window whose event has a user_id that is not null
WithUser(items) ==
    {i \in 1..Len(items) :
        /\ "user_id" \in DOMAIN items[i].event.v
        /\ items[i].event.v.user_id # PyNone}

UsersOf(items) == {items[i].event.v.user_id.v : i \in WithUser(items)}

\* the distinct users, and one more when some entry has no user
ConventionCount(items) ==
    Cardinality(UsersOf(items)) + (IF WithUser(items) # 1..Len(items) THEN 1 ELSE 0)

\* the last call got as far as returning, with the distinct policy loaded
DistinctChecked ==
    DistinctLoaded /\ hist # <<>> /\ ~LastCall.raised /\ StaticOK(LastCall)

\* C27: in a distinct_field check the in-window events in which the field is
\* absent or null count together as one value, however many they are: two
\* distinct users and any number of events without the field make 3.
C27_DistinctConvention ==
    DistinctChecked =>
        (Matched(LastCall, PolDistinct.id)
            <=> ConventionCount(DistinctWindow) >= PolDistinct.stateful.threshold.count)

\* two users, an event without user_id and an event whose user_id is null:
\* the fourth call matches on a count of 3
C27_Witness ==
    /\ DistinctChecked
    /\ Len(DistinctWindow) = 4
    /\ Cardinality(UsersOf(DistinctWindow)) = 2
    /\ \E i \in 1..4 : DistinctWindow[i].event = AnonymousEvent
    /\ \E i \in 1..4 : DistinctWindow[i].event = NullUserEvent
    /\ Matched(LastCall, PolDistinct.id)

-----------------------------------------------------------------------------
(* PolicyEvaluator: the event of a check in its own window                  *)

\* the window list of the k-th policy ends with the event of the last call
HoldsCurrent(k) ==
    /\ policies[k].id \in DOMAIN state_tracker
    /\ state_tracker[policies[k].id] # <<>>
    /\ state_tracker[policies[k].id][Len(state_tracker[policies[k].id])].event = LastCall.event

\* C28: right after a stateful check of policy p on event e, the entry of e
\* is in the window of p, so a stateful policy with threshold.count <= 1
\* matches every event that passes its static conditions, whatever the
\* window, a zero-length window such as '0s' included.
C28_CurrentEventCounted ==
    hist # <<>> =>
        \A k \in StatefulFor(Len(hist)) :
            policies[k].stateful.window.t = "str" =>
                /\ HoldsCurrent(k)
                /\ ThresholdCount(k) <= 1 => Matched(LastCall, policies[k].id)

\* the policy with window '0s' has been checked on an event that passes its
\* static conditions
C28_ZeroWindowChecked ==
    /\ PolZero.id \in LoadedIds
    /\ hist # <<>>
    /\ StaticHolds(LastCall.event, PolZero)
    /\ PolZero.id \in DOMAIN state_tracker

-----------------------------------------------------------------------------
(* PolicyEvaluator: a load_policy call that raises                          *)

\* a load_policy call that raises leaves self.policies as it was
FailedLoadStep ==
    \A file \in YamlPool :
        (LoadYaml(file) /\ LoadYamlResult(policies, file).raised) => policies' = policies

\* C29: a failed load leaves the evaluator unchanged: when load_policy raises
\* (unparsable YAML, or YAML that is not a mapping, such as empty input) the
\* policy list is what it was before the call, and no later evaluate_event
\* raises because of it.
C29_FailedLoadNoEffect ==
    /\ [][FailedLoadStep]_vars
    /\ [](hist # <<>> => ~LastCall.raised)

\* an empty input was loaded and an event evaluated afterwards
C29_EvaluatedAfterFailedLoad ==
    /\ \E k \in 1..Len(policies) : NotAMapping(policies[k])
    /\ hist # <<>>

-----------------------------------------------------------------------------
(* The two Luhn implementations                                             *)

\* digits, optionally separated by spaces or dashes
LuhnInput(cs) == \A i \in 1..Len(cs) : cs[i] \in Digits \cup {" ", "-"}

HasDigit(cs) == \E i \in 1..Len(cs) : cs[i] \in Digits

\* C30: DLPClassifier._validate_luhn and PolicyEngine._luhn_check return the
\* same boolean for every input made of digits optionally separated by spaces
\* or dashes, the empty string and the inputs without any digit included.
C30_LuhnAgreement ==
    LuhnInput(cl_content) => (ValidateLuhn(cl_content) <=> LuhnCheck(cl_content))

\* an input with digits and separators that both implementations accept has
\* been classified
C30_Witness ==
    /\ cl_class.done
    /\ LuhnInput(cl_content)
    /\ HasDigit(cl_content)
    /\ \E i \in 1..Len(cl_content) : cl_content[i] = " "
    /\ \E i \in 1..Len(cl_content) : cl_content[i] = "-"
    /\ ValidateLuhn(cl_content)
    /\ LuhnCheck(cl_content)

=============================================================================
